---- MODULE Spec2Model ----
(***************************************************************************)
(* Behavioural model of the retro-sketch drawing analyser front end:       *)
(* the Groq model cascade (groqAgent.js), the OCR entry points             *)
(* (pdfProcessor.js, both revisions), the extraction chain                 *)
(* (dataExtractor.js), the translator (translator.js) and the progress     *)
(* tracker of the GUI (gui.js).                                            *)
(*                                                                         *)
(* Error messages are sequences of string fragments: the template literal  *)
(* `${a}: ${b}` is the concatenation a \o b, and message.includes(s) is    *)
(* membership of the fragment s.                                           *)
(***************************************************************************)
EXTENDS Integers, Sequences, FiniteSets, TLC

VARIABLES
  entry,            \* the exported function the caller invoked
  pc,               \* control position of the (single) async call stack
  caller,           \* the function that called callGroqAPI
  apiKeySet,        \* GROQ_API_KEY is a non-empty string
  hasCallback,      \* the caller supplied a progressCallback
  fileIsImage,      \* file.type starts with 'image/'
  ocrText,          \* the text handed to extractAllData
  i,                \* loop index of callGroqAPI (1-based)
  lastError,        \* lastError of callGroqAPI
  calls,            \* number of fetches issued, per endpoint
  failLog,          \* reasons of the failed attempts, in order
  inflight,         \* requests awaiting their response
  hung,             \* the in-flight request will never be answered
  timers,           \* timers armed in the browser's timer table
  progress,         \* messages delivered to progressCallback, in order
  groqResult,       \* value returned by callGroqAPI
  thrown,           \* message of the exception being propagated
  aiData,           \* aiData of extractAllData
  backendError,     \* error caught by processPdfWithOCR (pdfProcessor.js)
  outcome,          \* what the entry function returned or threw
  cancelRequested,  \* the caller has withdrawn the request (signal.aborted)
  signalGiven,      \* the caller passed an abortSignal (pdfProcessor.js, later revision)
  elapsedSeconds,   \* elapsedSeconds of the progress ticker
  currentPdfFile,   \* gui.js: a file has been selected
  progressSteps,    \* gui.js: the steps shown in the progress panel
  currentStepIndex, \* gui.js: index of the step pushed last (0-based, -1 for none)
  extractedData,    \* gui.js: module-level result of extractAllData
  translatedData,   \* gui.js: module-level result of the translation
  steelEquivData,   \* gui.js: module-level steel equivalents
  events,           \* progress calls of the running synchronous segment, not yet applied
  requests,         \* network requests of the click handlers awaiting their response
  handler,          \* per invocation of the click handler: position and locals
  sortImpl,         \* the orders Array.prototype.sort of this engine has produced, per input
  mergeLog,         \* the merges computed so far: arguments and result
  steelPc,          \* steelEquivalents.js: position of findSteelEquivalents
  steelGrade,       \* its argument
  steelAi,          \* what the AI lookup gave: an object, null, or a rejected import
  dbConsulted,      \* the database part of the function has run
  steelOutcome,     \* what findSteelEquivalents returned or threw
  trPc,             \* translator.js: position of translateToEnglish
  trText,           \* its argument text
  trUseGlossary,    \* its argument useGlossary
  trTranslated,     \* its local translated
  trAwaits,         \* how its awaits have settled so far
  trOutcome,        \* what translateToEnglish returned or threw
  cloudFolderPagination, \* gui.js: pagination state of the cloud folder
  cloudPc,          \* gui.js: position of loadCloudFolder
  cloudAppend,      \* its argument append
  cloudBefore       \* cloudFolderPagination when loadMoreCloudFiles was called

chainVars == <<entry, pc, caller, apiKeySet, hasCallback, fileIsImage, ocrText,
               i, lastError, calls, failLog, inflight, hung, timers, progress,
               groqResult, thrown, aiData, backendError, outcome, cancelRequested>>

ocrVars == <<signalGiven, elapsedSeconds>>

guiVars == <<currentPdfFile, progressSteps, currentStepIndex, extractedData, translatedData,
             steelEquivData, events, requests, handler>>

mergeVars == <<sortImpl, mergeLog>>

steelVars == <<steelPc, steelGrade, steelAi, dbConsulted, steelOutcome>>

translateVars == <<trPc, trText, trUseGlossary, trTranslated, trAwaits, trOutcome>>

cloudVars == <<cloudFolderPagination, cloudPc, cloudAppend, cloudBefore>>

vars == <<chainVars, ocrVars, guiVars, mergeVars, steelVars, translateVars, cloudVars>>

(* state the chain functions of groqAgent.js, dataExtractor.js and the first *)
(* revision of pdfProcessor.js do not have                                   *)
otherVars == <<ocrVars, guiVars, mergeVars, steelVars, translateVars, cloudVars>>

-----------------------------------------------------------------------------
(* groqAgent.js: model lists *)

OCR_MODELS == <<"groq/compound", "llama-3.3-70b-versatile", "llama-3.1-8b-instant">>

EXTRACTION_MODELS == <<"groq/compound", "llama-3.3-70b-versatile", "llama-3.1-8b-instant">>

Models == IF caller = "extractStructuredData" THEN EXTRACTION_MODELS ELSE OCR_MODELS

KEY_MSG == "Groq API key not configured"

NoError == <<>>

NoValue == [kind |-> "none"]

(* Failure reasons a model request can produce. *)
HttpErrors == {<<"HTTP 401">>, <<"HTTP 429">>, <<"HTTP 500">>}

FetchRejected == <<"Failed to fetch">>

InvalidFormat == <<"Invalid response format">>

BadBody == <<"Unexpected end of JSON input">>

NullBodyError == <<"Cannot read properties of null">>

ModelFailures == HttpErrors \cup {FetchRejected, InvalidFormat, BadBody, NullBodyError}

IsAuthFailure(msg) == msg = <<"HTTP 401">>

Msg(kind, model) == [k |-> kind, m |-> model]

Pending == [kind |-> "pending"]

Returned(v) == [kind |-> "returned", value |-> v]

Threw(msg) == [kind |-> "threw", message |-> msg]

ZeroCalls == [backend |-> 0, openrouter |-> 0, groq |-> <<0, 0, 0>>]

(* progressCallback as callGroqAPI sees it: processPdfOCR and                *)
(* extractStructuredData do not pass theirs on.                              *)
GroqCb == hasCallback /\ caller = "processImageOCR"

EmitGroq(msgs) == IF GroqCb THEN progress \o msgs ELSE progress

EmitOuter(msgs) == IF hasCallback THEN progress \o msgs ELSE progress

-----------------------------------------------------------------------------
(* groqAgent.js: callGroqAPI *)

chainRest == <<entry, apiKeySet, hasCallback, fileIsImage, ocrText, timers, backendError,
               cancelRequested, otherVars>>

(* line 30-34: the key check, then lastError = null and the loop starts *)
GroqCheckKey ==
  /\ pc = "groqCheckKey"
  /\ IF ~apiKeySet
       THEN /\ thrown' = <<KEY_MSG, ". Set VITE_GROQ_API_KEY in .env">>
            /\ pc' = "calleeThrew"
            /\ UNCHANGED <<i, lastError>>
       ELSE /\ lastError' = NoError
            /\ i' = 1
            /\ pc' = "groqLoop"
            /\ UNCHANGED thrown
  /\ UNCHANGED <<caller, calls, failLog, inflight, hung, progress, groqResult, aiData, outcome>>
  /\ UNCHANGED chainRest

(* line 36-62: loop head, the two progress messages, the fetch is issued *)
GroqSend ==
  /\ pc = "groqLoop"
  /\ i <= Len(Models)
  /\ progress' = EmitGroq(<<Msg("trying", Models[i]), Msg("sending", Models[i])>>)
  /\ calls' = [calls EXCEPT !.groq[i] = @ + 1]
  /\ inflight' = inflight \cup {"groq"}
  /\ pc' = "groqFetch"
  /\ UNCHANGED <<caller, i, lastError, failLog, hung, groqResult, thrown, aiData, outcome>>
  /\ UNCHANGED chainRest

(* a catch block that records only the first failure *)
GroqCatchKeepsFirst(reason, log) ==
  /\ lastError' = IF lastError = NoError THEN reason ELSE lastError
  /\ failLog' = Append(failLog, reason)
  /\ progress' = IF GroqCb /\ i < Len(Models)
                  THEN log \o <<Msg("failed, trying next", Models[i])>>
                  ELSE log
  /\ i' = i + 1
  /\ pc' = "groqLoop"

(* line 97-105: the catch block of one iteration *)
GroqCatch(reason, log) ==
  /\ lastError' = reason
  /\ failLog' = Append(failLog, reason)
  /\ progress' = IF GroqCb /\ i < Len(Models)
                  THEN log \o <<Msg("failed, trying next", Models[i])>>
                  ELSE log
  /\ i' = i + 1
  /\ pc' = "groqLoop"

(* line 55: fetch rejects (network failure) *)
GroqFetchRejects ==
  /\ pc = "groqFetch" /\ ~hung
  /\ inflight' = inflight \ {"groq"}
  /\ GroqCatch(FetchRejected, progress)
  /\ UNCHANGED <<caller, calls, hung, groqResult, thrown, aiData, outcome>>
  /\ UNCHANGED chainRest

(* line 64-75: a response with !response.ok *)
GroqHttpError ==
  /\ pc = "groqFetch" /\ ~hung
  /\ inflight' = inflight \ {"groq"}
  /\ \/ \E e \in HttpErrors :
          GroqCatch(e, EmitGroq(<<Msg("received", Models[i]), Msg("failed", Models[i])>>))
     \/ \* the error body is the JSON value null: errorData.error throws
        GroqCatch(NullBodyError, EmitGroq(<<Msg("received", Models[i])>>))
  /\ UNCHANGED <<caller, calls, hung, groqResult, thrown, aiData, outcome>>
  /\ UNCHANGED chainRest

(* line 77-96: response.ok, but the body is no JSON or has no choices[0].message *)
GroqBadResponse ==
  /\ pc = "groqFetch" /\ ~hung
  /\ inflight' = inflight \ {"groq"}
  /\ \E e \in {InvalidFormat, BadBody} :
        GroqCatch(e, EmitGroq(<<Msg("received", Models[i]), Msg("parsing", Models[i])>>))
  /\ UNCHANGED <<caller, calls, hung, groqResult, thrown, aiData, outcome>>
  /\ UNCHANGED chainRest

(* a cascade that gives up after the first failure *)
GroqExhaustedEarly ==
  /\ pc = "groqLoop"
  /\ i > 1
  /\ thrown' = <<"All models failed. Last error: ">>
                  \o (IF lastError = NoError THEN <<"Unknown error">> ELSE lastError)
  /\ pc' = "calleeThrew"
  /\ UNCHANGED <<caller, i, lastError, calls, failLog, inflight, hung, progress,
                 groqResult, aiData, outcome>>
  /\ UNCHANGED chainRest

(* line 108: every model failed *)
GroqExhausted ==
  /\ pc = "groqLoop"
  /\ i > Len(Models)
  /\ thrown' = <<"All models failed. Last error: ">>
                  \o (IF lastError = NoError THEN <<"Unknown error">> ELSE lastError)
  /\ pc' = "calleeThrew"
  /\ UNCHANGED <<caller, i, lastError, calls, failLog, inflight, hung, progress,
                 groqResult, aiData, outcome>>
  /\ UNCHANGED chainRest

-----------------------------------------------------------------------------
(* JSON values as a provider may return them in a field of its payload *)

Undef == [t |-> "undefined"]

Null == [t |-> "null"]

Num(n) == [t |-> "number", n |-> n]

Obj == [t |-> "object"]

Arr(s) == [t |-> "array", v |-> s]

(* x || [] *)
OrEmpty(x) == IF x.t \in {"undefined", "null"} \/ x = Num(0) THEN Arr(<<>>) ELSE x

(* [...x] throws a TypeError unless x is iterable *)
IsIterable(x) == x.t = "array"

Spread(x) == x.v

(* Array.isArray(x) ? x : [] *)
ArrayOrEmpty(x) == IF x.t = "array" THEN x.v ELSE <<>>

RECURSIVE Dedup(_)
(* [...new Set(s)]: first occurrences, in order *)
Dedup(s) ==
  IF s = <<>> THEN <<>>
  ELSE LET r == Dedup(SubSeq(s, 1, Len(s) - 1))
           x == s[Len(s)]
       IN IF \E k \in 1..Len(r) : r[k] = x THEN r ELSE Append(r, x)

(* An element of a roughness array: a number, a string that Number() reads  *)
(* as that number ("3.2"), or a string that Number() reads as NaN ("Ra 6.3"). *)
(* Values are in tenths.                                                     *)
RaNum(n) == [n |-> n, rep |-> "number"]

RaStr(n) == [n |-> n, rep |-> "string"]

RaText == [n |-> 0, rep |-> "text"]

(* the JSON value null: Number(null) is 0, and null - b is 0 - b *)
RaNull == [n |-> 0, rep |-> "null"]

IsNaN(x) == x.rep = "text"

RECURSIVE Insert(_, _)
Insert(x, s) ==
  IF s = <<>> THEN <<x>>
  ELSE IF x.n < s[1].n THEN <<x>> \o s
  ELSE <<s[1]>> \o Insert(x, Tail(s))

RECURSIVE SortAsc(_)
(* Array.prototype.sort((a, b) => a - b) where every a - b is a number:      *)
(* stable, ascending by numeric value                                        *)
SortAsc(s) == IF s = <<>> THEN <<>> ELSE Insert(s[Len(s)], SortAsc(SubSeq(s, 1, Len(s) - 1)))

Orders(s) ==
  {[k \in 1..Len(s) |-> s[p[k]]] :
     p \in {q \in [1..Len(s) -> 1..Len(s)] : \A j, k \in 1..Len(s) : q[j] = q[k] => j = k}}

(* Array.prototype.sort((a, b) => a - b): with an element whose difference   *)
(* is NaN the comparator is not consistent and the order the engine leaves   *)
(* is implementation-defined                                                 *)
SortResults(s) ==
  IF \E k \in 1..Len(s) : IsNaN(s[k]) THEN Orders(s) ELSE {SortAsc(s)}

-----------------------------------------------------------------------------
(* dataExtractor.js: the pattern extractors.  A text is a sequence of lines, *)
(* each line one lexical form the patterns know (or none of them), Cyrillic   *)
(* transliterated; roughness values are in tenths.                           *)

Lines == {"Stal 45", "GOST 1050", "Ra 3.2", "Ra 1.6", "H7/f7", "zakalka: HRC 45", "bez pokrytiya"}

RECURSIVE CollectKeepsUnmatched(_, _)
(* a collector that pushes the line itself when the pattern has no capture *)
CollectKeepsUnmatched(text, capture) ==
  IF text = <<>> THEN <<>>
  ELSE LET r == CollectKeepsUnmatched(SubSeq(text, 1, Len(text) - 1), capture)
           c == capture[text[Len(text)]]
       IN IF c = <<>> THEN Append(r, text[Len(text)])
          ELSE IF \E k \in 1..Len(r) : r[k] = c[1] THEN r ELSE Append(r, c[1])

RECURSIVE Collect(_, _)
(* matchAll over the text, one capture per matching line, pushed unless included *)
Collect(text, capture) ==
  IF text = <<>> THEN <<>>
  ELSE LET r == Collect(SubSeq(text, 1, Len(text) - 1), capture)
           c == capture[text[Len(text)]]
       IN IF c = <<>> \/ (\E k \in 1..Len(r) : r[k] = c[1]) THEN r ELSE Append(r, c[1])

StandardOf == [l \in Lines |-> IF l = "GOST 1050" THEN <<"GOST 1050">> ELSE <<>>]

SteelOf == [l \in Lines |-> IF l = "Stal 45" THEN <<"45">> ELSE <<>>]

(* line 249-252: the rest of the line that holds a matched standard *)
GostLineOf == [l \in Lines |-> IF l = "GOST 1050" THEN <<l>> ELSE <<>>]

RaOf ==
  [l \in Lines |-> IF l = "Ra 3.2" THEN <<RaNum(32)>>
                   ELSE IF l = "Ra 1.6" THEN <<RaNum(16)>> ELSE <<>>]

(* String.prototype.toUpperCase on the fit designations of the model *)
toUpperCase(s) == IF s = "H7/f7" THEN "H7/F7" ELSE s

FitOf == [l \in Lines |-> IF l = "H7/f7" THEN <<toUpperCase(l)>> ELSE <<>>]

HeatOf == [l \in Lines |-> IF l = "zakalka: HRC 45" THEN <<"HRC 45">> ELSE <<>>]

extractGOSTStandards(text) == Collect(text, StandardOf)

extractMaterials(text) == Dedup(Collect(text, SteelOf) \o Collect(text, GostLineOf))

extractRaValues(text) == SortAsc(Collect(text, RaOf))

extractFits(text) == Collect(text, FitOf)

extractHeatTreatment(text) == Collect(text, HeatOf)

(* line 456-462 *)
RegexData(text) ==
  [materials |-> extractMaterials(text),
   standards |-> extractGOSTStandards(text),
   raValues |-> extractRaValues(text),
   fits |-> extractFits(text),
   heatTreatment |-> extractHeatTreatment(text)]

Fields == {"materials", "standards", "raValues", "fits", "heatTreatment"}

(* line 465-474: the merge throws when a truthy field of aiData is not iterable *)
MergeThrows(ai) == \E f \in Fields : ~IsIterable(OrEmpty(ai[f]))

(* the merge with the pattern record first *)
MergeFieldRegexFirst(ai, regex, f) == Dedup(regex[f] \o Spread(OrEmpty(ai[f])))

MergeField(ai, regex, f) == Dedup(Spread(OrEmpty(ai[f])) \o regex[f])

(* a merge that returns the AI record alone *)
MergeAiOnly(ai, regex, text) ==
  {[materials |-> Dedup(Spread(OrEmpty(ai.materials))),
    standards |-> Dedup(Spread(OrEmpty(ai.standards))),
    raValues |-> ra,
    fits |-> Dedup(Spread(OrEmpty(ai.fits))),
    heatTreatment |-> Dedup(Spread(OrEmpty(ai.heatTreatment))),
    rawText |-> text] : ra \in SortResults(Dedup(Spread(OrEmpty(ai.raValues))))}

(* line 467-474: the records the merge may return, one for each order the   *)
(* sort of raValues may leave                                                *)
Merge(ai, regex, text) ==
  {[materials |-> MergeField(ai, regex, "materials"),
    standards |-> MergeField(ai, regex, "standards"),
    raValues |-> ra,
    fits |-> MergeField(ai, regex, "fits"),
    heatTreatment |-> MergeField(ai, regex, "heatTreatment"),
    rawText |-> text] : ra \in SortResults(MergeField(ai, regex, "raValues"))}

(* line 476-485 *)
RegexOnly(regex, text) ==
  [materials |-> regex.materials,
   standards |-> regex.standards,
   raValues |-> regex.raValues,
   fits |-> regex.fits,
   heatTreatment |-> regex.heatTreatment,
   rawText |-> text]

-----------------------------------------------------------------------------
(* What the providers may answer *)

MatVals == {Undef, Num(42), Arr(<<"45">>), Arr(<<"40X", "45", "40X">>)}

RaVals ==
  {Undef, Obj, Arr(<<RaNum(32), RaNum(8), RaNum(32)>>), Arr(<<RaStr(32), RaNum(8)>>),
   Arr(<<RaNum(32), RaText, RaNum(16)>>), Arr(<<RaNull, RaNum(32)>>)}

FitVals == {Arr(<<>>), Arr(<<"H7/f7">>)}

Payloads ==
  {[materials |-> m, standards |-> Undef, raValues |-> r, fits |-> f, heatTreatment |-> Null] :
     m \in MatVals, r \in RaVals, f \in FitVals}

NoPayload ==
  [materials |-> Undef, standards |-> Undef, raValues |-> Undef, fits |-> Undef,
   heatTreatment |-> Undef]

(* message.content of a chat completion: OCR text, or the text of a JSON     *)
(* answer: valid JSON, prose around a {...} that parses, prose around a      *)
(* {...} that does not parse, or no {...} at all                             *)
Contents(c) ==
  IF c = "extractStructuredData"
  THEN {[json |-> k, data |-> d] : k \in {"valid", "embedded"}, d \in Payloads}
       \cup {[json |-> k, data |-> NoPayload] : k \in {"embeddedBad", "none"}}
  ELSE {[json |-> "text", data |-> NoPayload]}

ChainTexts ==
  {<<>>, <<"bez pokrytiya">>, <<"Stal 45">>, <<"Ra 3.2", "Ra 1.6">>, <<"H7/f7", "GOST 1050">>}

BackendErrors ==
  {<<"Failed to fetch">>, <<"HTTP 500: Internal Server Error">>,
   <<KEY_MSG, " in backend">>}

OpenRouterErrors ==
  {<<"HTTP 401: Unauthorized">>, <<"HTTP 500: Internal Server Error">>,
   <<"Invalid response from OpenRouter">>}

Includes(msg, frag) == \E k \in 1..Len(msg) : msg[k] = frag

-----------------------------------------------------------------------------
(* groqAgent.js: callGroqAPI, the successful response *)

(* a success that records the result but lets the loop go on *)
GroqSuccessKeepsGoing ==
  /\ pc = "groqFetch" /\ ~hung
  /\ inflight' = inflight \ {"groq"}
  /\ \E c \in Contents(caller) :
       groqResult' = [content |-> c, model |-> Models[i], usage |-> "undefined"]
  /\ i' = i + 1
  /\ pc' = IF i < Len(Models) THEN "groqLoop" ELSE "groqReturned"
  /\ UNCHANGED <<caller, lastError, calls, failLog, hung, progress, thrown, aiData, outcome>>
  /\ UNCHANGED chainRest

(* line 77-94 *)
(* a success that reports the head of the list instead of the model that answered *)
GroqSuccessNamesFirst ==
  /\ pc = "groqFetch" /\ ~hung
  /\ inflight' = inflight \ {"groq"}
  /\ \E c \in Contents(caller), usage \in BOOLEAN :
       /\ groqResult' = [content |-> c, model |-> Models[1],
                         usage |-> IF usage THEN Models[1] ELSE "undefined"]
       /\ progress' = EmitGroq(<<Msg("received", Models[i]), Msg("parsing", Models[i]),
                                 Msg("success", Models[i])>>
                               \o IF usage THEN <<Msg("tokens", Models[i])>> ELSE <<>>)
  /\ pc' = "groqReturned"
  /\ UNCHANGED <<caller, i, lastError, calls, failLog, hung, thrown, aiData, outcome>>
  /\ UNCHANGED chainRest

GroqSuccess ==
  /\ pc = "groqFetch" /\ ~hung
  /\ inflight' = inflight \ {"groq"}
  /\ \E c \in Contents(caller), usage \in BOOLEAN :
       /\ groqResult' = [content |-> c, model |-> Models[i],
                         usage |-> IF usage THEN Models[i] ELSE "undefined"]
       /\ progress' = EmitGroq(<<Msg("received", Models[i]), Msg("parsing", Models[i]),
                                 Msg("success", Models[i])>>
                               \o IF usage THEN <<Msg("tokens", Models[i])>> ELSE <<>>)
  /\ pc' = "groqReturned"
  /\ UNCHANGED <<caller, i, lastError, calls, failLog, hung, thrown, aiData, outcome>>
  /\ UNCHANGED chainRest

-----------------------------------------------------------------------------
(* groqAgent.js: processPdfOCR, processImageOCR *)

OcrCallers == {"processPdfOCR", "processImageOCR"}

OcrPrefix == IF caller = "processImageOCR" THEN <<"Image OCR failed: ">> ELSE <<"OCR failed: ">>

(* line 132-135, 180-183: the entry, up to the await of the image conversion *)
CallGroqOCR ==
  /\ pc = "idle"
  /\ \E e \in OcrCallers, cb \in BOOLEAN :
       /\ entry' = e
       /\ caller' = e
       /\ hasCallback' = cb
  /\ pc' = "imageData"
  /\ UNCHANGED <<apiKeySet, fileIsImage, ocrText, i, lastError, calls, failLog, inflight, hung,
                 timers, progress, groqResult, thrown, aiData, backendError, outcome,
                 cancelRequested>>
  /\ UNCHANGED otherVars

(* line 135, 183, 160, 208: the image data is there, callGroqAPI is entered *)
ImageDataReady ==
  /\ pc = "imageData"
  /\ pc' = "groqCheckKey"
  /\ UNCHANGED <<caller, i, lastError, calls, failLog, inflight, hung, progress, groqResult,
                 thrown, aiData, outcome>>
  /\ UNCHANGED chainRest

(* line 117-122, 270-279: the FileReader reports an error *)
ImageDataFails ==
  /\ pc = "imageData"
  /\ thrown' = <<"FileReader error">>
  /\ pc' = "calleeThrew"
  /\ UNCHANGED <<caller, i, lastError, calls, failLog, inflight, hung, progress, groqResult,
                 aiData, outcome>>
  /\ UNCHANGED chainRest

OcrResult == [text |-> groqResult.content, model |-> groqResult.model]

(* groqAgent.js line 164-170, 212-219; pdfProcessor.js line 595-597 *)
OcrReturns ==
  /\ pc = "groqReturned"
  /\ caller \in OcrCallers
  /\ outcome' = Returned(OcrResult)
  /\ pc' = "done"
  /\ UNCHANGED <<caller, i, lastError, calls, failLog, inflight, hung, progress, groqResult,
                 thrown, aiData>>
  /\ UNCHANGED chainRest

(* pdfProcessor.js line 599-601: both the backend and the Groq fallback failed *)
FallbackFailed(first, second) ==
  <<"OCR processing failed: ">> \o first
    \o <<". Backend unavailable and Groq fallback also failed: ">> \o second

(* groqAgent.js line 171-174, 220-223; pdfProcessor.js line 599-601 *)
OcrThrows ==
  /\ pc = "calleeThrew"
  /\ caller \in OcrCallers
  /\ outcome' = IF entry = "processPdfWithOCR"
                THEN Threw(FallbackFailed(backendError, OcrPrefix \o thrown))
                ELSE Threw(OcrPrefix \o thrown)
  /\ pc' = "done"
  /\ UNCHANGED <<caller, i, lastError, calls, failLog, inflight, hung, progress, groqResult,
                 thrown, aiData>>
  /\ UNCHANGED chainRest

-----------------------------------------------------------------------------
(* pdfProcessor.js (src/src): processPdfWithOCR, backend first, Groq second *)

(* line 522-547 *)
CallProcessPdfWithOCR ==
  /\ pc = "idle"
  /\ entry' = "processPdfWithOCR"
  /\ \E img \in BOOLEAN, cb \in BOOLEAN :
       /\ fileIsImage' = img
       /\ hasCallback' = cb
       /\ progress' = IF cb
                      THEN <<Msg("sending file", "backend"), Msg("file size", "backend"),
                             Msg("languages", "backend"), Msg("sending", "backend")>>
                      ELSE <<>>
  /\ calls' = [calls EXCEPT !.backend = @ + 1]
  /\ inflight' = inflight \cup {"backend"}
  /\ pc' = "backendFetch"
  /\ UNCHANGED <<caller, apiKeySet, ocrText, i, lastError, failLog, hung, timers, groqResult,
                 thrown, aiData, backendError, outcome, cancelRequested>>
  /\ UNCHANGED otherVars

(* line 549-576 *)
BackendSuccess ==
  /\ pc = "backendFetch" /\ ~hung
  /\ inflight' = inflight \ {"backend"}
  /\ \E info \in BOOLEAN :
       progress' = EmitOuter(<<Msg("processing response", "backend")>>
                             \o IF info THEN <<Msg("method", "backend"), Msg("time", "backend"),
                                               Msg("reasoning", "backend")>>
                                ELSE <<>>)
  /\ outcome' = Returned([text |-> [json |-> "text", data |-> NoPayload], model |-> "backend"])
  /\ pc' = "done"
  /\ UNCHANGED <<caller, i, lastError, calls, failLog, hung, groqResult, thrown, aiData>>
  /\ UNCHANGED chainRest

(* line 577-584: the configuration error is not retried *)
IsConfigError(msg) == Includes(msg, KEY_MSG)

(* line 549-552, 577-598 *)
BackendFails ==
  /\ pc = "backendFetch" /\ ~hung
  /\ inflight' = inflight \ {"backend"}
  /\ \E e \in BackendErrors :
       IF IsConfigError(e)
       THEN /\ outcome' = Threw(<<"OCR processing failed: ">> \o e
                                \o <<". Please configure GROQ_API_KEY in backend environment.">>)
            /\ pc' = "done"
            /\ UNCHANGED <<caller, backendError, progress>>
       ELSE /\ backendError' = e
            /\ progress' = EmitOuter(<<Msg("backend failed, trying Groq", "backend")>>)
            /\ caller' = IF fileIsImage THEN "processImageOCR" ELSE "processPdfOCR"
            /\ pc' = "imageData"
            /\ UNCHANGED outcome
  /\ UNCHANGED <<entry, apiKeySet, hasCallback, fileIsImage, ocrText, timers, cancelRequested>>
  /\ UNCHANGED <<i, lastError, calls, failLog, hung, groqResult, thrown, aiData>>
  /\ UNCHANGED otherVars

-----------------------------------------------------------------------------
(* dataExtractor.js: extractAllData, OpenRouter first, Groq second, then the *)
(* patterns                                                                  *)

(* line 455-486: what extractAllData hands back once the AI stage is over *)
ExtractFinish(ai) ==
  IF ai = Null THEN {Returned(RegexOnly(RegexData(ocrText), ocrText))}
  ELSE IF MergeThrows(ai) THEN {Threw(<<"TypeError: is not iterable">>)}
  ELSE {Returned(m) : m \in Merge(ai, RegexData(ocrText), ocrText)}

(* line 433-439, 397-410: no check of ocrText; the OpenRouter request is sent *)
CallExtractAllData ==
  /\ pc = "idle"
  /\ entry' = "extractAllData"
  /\ \E text \in ChainTexts : ocrText' = text
  /\ calls' = [calls EXCEPT !.openrouter = @ + 1]
  /\ inflight' = inflight \cup {"openrouter"}
  /\ pc' = "orFetch"
  /\ UNCHANGED <<caller, apiKeySet, hasCallback, fileIsImage, i, lastError, failLog, hung,
                 timers, progress, groqResult, thrown, aiData, backendError, outcome,
                 cancelRequested>>
  /\ UNCHANGED otherVars

(* line 416-420, 439-440, 455-486 *)
OpenRouterSuccess ==
  /\ pc = "orFetch" /\ ~hung
  /\ inflight' = inflight \ {"openrouter"}
  /\ \E d \in Payloads :
       /\ aiData' = d
       /\ outcome' \in ExtractFinish(d)
  /\ pc' = "done"
  /\ UNCHANGED <<caller, i, lastError, calls, failLog, hung, progress, groqResult, thrown>>
  /\ UNCHANGED chainRest

(* line 412-414, 422-426, 441-447: any failure of OpenRouter leads to Groq *)
OpenRouterFails ==
  /\ pc = "orFetch" /\ ~hung
  /\ inflight' = inflight \ {"openrouter"}
  /\ \E e \in OpenRouterErrors : thrown' = e
  /\ caller' = "extractStructuredData"
  /\ pc' = "groqCheckKey"
  /\ UNCHANGED <<i, lastError, calls, failLog, hung, progress, groqResult, aiData, outcome>>
  /\ UNCHANGED chainRest

(* groqAgent.js line 355: raValues.map(Number).filter(n => !isNaN(n)) *)
ToNumbers(s) ==
  LET NotNaN(x) == ~IsNaN(x)
      kept == SelectSeq(s, NotNaN)
  IN [k \in 1..Len(kept) |-> RaNum(kept[k].n)]

(* groqAgent.js line 352-359 *)
Normalise(d) ==
  [materials |-> Arr(ArrayOrEmpty(d.materials)),
   standards |-> Arr(ArrayOrEmpty(d.standards)),
   raValues |-> Arr(ToNumbers(ArrayOrEmpty(d.raValues))),
   fits |-> Arr(ArrayOrEmpty(d.fits)),
   heatTreatment |-> Arr(ArrayOrEmpty(d.heatTreatment))]

(* groqAgent.js line 350-371: what extractStructuredData makes of the content *)
StructuredData(content) ==
  IF content.json = "valid" THEN Normalise(content.data)
  ELSE IF content.json = "embedded" THEN content.data
  ELSE Null

(* groqAgent.js line 350-371; dataExtractor.js line 447-452, 455-486 *)
ExtractStructuredReturns ==
  /\ pc = "groqReturned"
  /\ caller = "extractStructuredData"
  /\ aiData' = StructuredData(groqResult.content)
  /\ outcome' \in ExtractFinish(StructuredData(groqResult.content))
  /\ pc' = "done"
  /\ UNCHANGED <<caller, i, lastError, calls, failLog, inflight, hung, progress, groqResult,
                 thrown>>
  /\ UNCHANGED chainRest

(* groqAgent.js line 368-371; dataExtractor.js line 449-452, 455-486 *)
ExtractStructuredThrows ==
  /\ pc = "calleeThrew"
  /\ caller = "extractStructuredData"
  /\ aiData' = Null
  /\ outcome' \in ExtractFinish(Null)
  /\ pc' = "done"
  /\ UNCHANGED <<caller, i, lastError, calls, failLog, inflight, hung, progress, groqResult,
                 thrown>>
  /\ UNCHANGED chainRest

-----------------------------------------------------------------------------
(* The environment of a call *)

(* the caller withdraws the request; none of the functions above takes an    *)
(* abort signal, so no action reads the flag                                 *)
CallerCancels ==
  /\ pc \notin {"idle", "done"}
  /\ ~cancelRequested
  /\ cancelRequested' = TRUE
  /\ UNCHANGED <<entry, pc, caller, apiKeySet, hasCallback, fileIsImage, ocrText, i, lastError,
                 calls, failLog, inflight, hung, timers, progress, groqResult, thrown, aiData,
                 backendError, outcome>>
  /\ UNCHANGED otherVars

(* the request in flight is one the server never answers *)
NeverAnswered ==
  /\ inflight # {}
  /\ ~hung
  /\ hung' = TRUE
  /\ UNCHANGED <<entry, pc, caller, apiKeySet, hasCallback, fileIsImage, ocrText, i, lastError,
                 calls, failLog, inflight, timers, progress, groqResult, thrown, aiData,
                 backendError, outcome, cancelRequested>>
  /\ UNCHANGED otherVars

-----------------------------------------------------------------------------
(* gui.js: module-level state of the processing panel *)

(* invocations of the click handler: the button stays enabled while a      *)
(* handler is running, so a second click starts a second handler            *)
Runs == {"first", "second"}

IdleHandler == [pc |-> "idle", callback |-> FALSE, cropped |-> FALSE, data |-> Null,
                list |-> 0, items |-> <<>>, translated |-> <<>>, i |-> 0]

(* line 79, 171-173: the module-level variables as the script leaves them *)
GuiInit ==
  /\ currentPdfFile = FALSE
  /\ progressSteps = <<>>
  /\ currentStepIndex = -1
  /\ extractedData = Null
  /\ translatedData = Null
  /\ steelEquivData = {}
  /\ events = <<>>
  /\ requests = {}
  /\ handler = [r \in Runs |-> IdleHandler]

(* gui.js line 1483-1490, 1502-1509: the pagination state of a folder not    *)
(* yet read                                                                  *)
FreshPagination(url) ==
  [url |-> url, offset |-> 0, limit |-> 50, hasMore |-> FALSE, total |-> 0,
   loadedFiles |-> <<>>]

NoFolder == FreshPagination("")

(* the state before any exported function is called *)
ChainInit ==
  /\ entry = "none"
  /\ pc = "idle"
  /\ caller = "none"
  /\ apiKeySet \in BOOLEAN
  /\ hasCallback = FALSE
  /\ fileIsImage = FALSE
  /\ ocrText = <<>>
  /\ i = 1
  /\ lastError = NoError
  /\ calls = ZeroCalls
  /\ failLog = <<>>
  /\ inflight = {}
  /\ hung = FALSE
  /\ timers = {}
  /\ progress = <<>>
  /\ groqResult = NoValue
  /\ thrown = NoError
  /\ aiData = Null
  /\ backendError = NoError
  /\ outcome = Pending
  /\ cancelRequested = FALSE
  /\ signalGiven = FALSE
  /\ elapsedSeconds = 0
  /\ GuiInit
  /\ sortImpl = {}
  /\ mergeLog = <<>>
  /\ steelPc = "idle"
  /\ steelGrade = Null
  /\ steelAi = Null
  /\ dbConsulted = FALSE
  /\ steelOutcome = Pending
  /\ trPc = "idle"
  /\ trText = Undef
  /\ trUseGlossary = TRUE
  /\ trTranslated = Undef
  /\ trAwaits = [kind |-> "none"]
  /\ trOutcome = Pending
  /\ cloudFolderPagination = NoFolder
  /\ cloudPc = "idle"
  /\ cloudAppend = FALSE
  /\ cloudBefore = NoFolder

ChainNext ==
  \/ CallGroqOCR \/ ImageDataReady \/ ImageDataFails
  \/ GroqCheckKey \/ GroqSend \/ GroqFetchRejects \/ GroqHttpError \/ GroqBadResponse
  \/ GroqSuccess \/ GroqExhausted
  \/ OcrReturns \/ OcrThrows
  \/ CallProcessPdfWithOCR \/ BackendSuccess \/ BackendFails
  \/ CallExtractAllData \/ OpenRouterSuccess \/ OpenRouterFails
  \/ ExtractStructuredReturns \/ ExtractStructuredThrows
  \/ CallerCancels \/ NeverAnswered

SpecChain == ChainInit /\ [][ChainNext]_vars

-----------------------------------------------------------------------------
(* pdfProcessor.js, later revision (src/unnamed/part_001): processPdfWithOCR *)
(* with ocrMethod, ocrQuality and abortSignal; the backend is the only       *)
(* provider here                                                             *)

MaxTicks == 2

ABORT_ENTRY == "processPdfWithOCR (abortSignal)"

TIMEOUT_MSG == "Timeout while processing OCR. The file is too large or the server is overloaded."

OcrErrorDetails == {<<"Unknown error">>, <<"HTTP 500: Internal Server Error">>,
                    <<"Upstream ", "timeout">>}

ocrFrame == <<entry, caller, apiKeySet, ocrText, i, lastError, failLog, groqResult, thrown,
              aiData, backendError>>

(* line 567-606: the request is prepared, the timers are armed, fetch is called *)
OcrSendFetch(log, cb, sig) ==
  /\ progress' = IF cb
                 THEN log \o <<Msg("sending file", "backend"), Msg("file size", "backend"),
                              Msg("languages", "backend"), Msg("sending", "backend")>>
                 ELSE log
  /\ timers' = (IF sig THEN {} ELSE {"timeout"}) \cup (IF cb THEN {"ticker"} ELSE {})
  /\ elapsedSeconds' = 0
  /\ calls' = [calls EXCEPT !.backend = @ + 1]
  /\ inflight' = {"backend"}
  /\ pc' = "fetching"
  /\ UNCHANGED outcome

(* line 665-670: an AbortError and a message that speaks of a timeout are    *)
(* both reported as a timeout                                                *)
OcrErrorMessage(name, msg) ==
  IF name = "AbortError" \/ Includes(msg, "timeout") \/ Includes(msg, "failed to respond")
  THEN <<TIMEOUT_MSG>>
  ELSE msg

OcrFailure(name, msg) ==
  Threw(<<"OCR processing failed: ">> \o OcrErrorMessage(name, msg)
        \o <<". Only OpenRouter and the OCR fallbacks are used.">>)

(* line 588, 665-677: what the call throws when its own 300 s timer fires *)
TimeoutOutcome == OcrFailure("AbortError", <<"The operation was aborted">>)

(* line 654-677: the catch block; it clears the ticker, not the timeout *)
OcrCatch(name, msg, armed) ==
  /\ timers' = armed \ {"ticker"}
  /\ progress' = EmitOuter(<<Msg("backend OCR failed", "backend")>>)
  /\ outcome' = OcrFailure(name, msg)
  /\ inflight' = {}
  /\ pc' = "done"
  /\ UNCHANGED <<calls, elapsedSeconds>>

(* line 544-565: the call; an image is optimised first *)
OcrCall ==
  /\ pc = "idle"
  /\ entry' = ABORT_ENTRY
  /\ \E img \in BOOLEAN, cb \in BOOLEAN, sig \in BOOLEAN :
       /\ fileIsImage' = img
       /\ hasCallback' = cb
       /\ signalGiven' = sig
       /\ IF img
          THEN /\ progress' = IF cb THEN <<Msg("optimising image", "backend")>> ELSE <<>>
               /\ pc' = "optimizing"
               /\ UNCHANGED <<timers, elapsedSeconds, calls, inflight, outcome>>
          ELSE OcrSendFetch(<<>>, cb, sig)
  /\ UNCHANGED <<caller, apiKeySet, ocrText, i, lastError, failLog, groqResult, thrown, aiData,
                 backendError, hung, cancelRequested>>
  /\ UNCHANGED <<guiVars, mergeVars, steelVars, translateVars, cloudVars>>

(* line 556-606: optimizeImageForOCR has resolved (it never rejects); with a *)
(* signal that is already aborted fetch rejects at once                      *)
OcrOptimized ==
  /\ pc = "optimizing"
  /\ \E smaller \in BOOLEAN :
       LET log == IF smaller THEN EmitOuter(<<Msg("image optimised", "backend")>>) ELSE progress
       IN IF signalGiven /\ cancelRequested
          THEN /\ timers' = {}
               /\ progress' = IF hasCallback
                              THEN log \o <<Msg("sending file", "backend"),
                                           Msg("file size", "backend"),
                                           Msg("languages", "backend"),
                                           Msg("sending", "backend"),
                                           Msg("backend OCR failed", "backend")>>
                              ELSE log
               /\ outcome' = OcrFailure("AbortError", <<"The operation was aborted">>)
               /\ inflight' = {}
               /\ pc' = "done"
               /\ UNCHANGED <<calls, elapsedSeconds>>
          ELSE OcrSendFetch(log, hasCallback, signalGiven)
  /\ UNCHANGED <<hasCallback, fileIsImage, signalGiven, hung, cancelRequested>>
  /\ UNCHANGED ocrFrame
  /\ UNCHANGED <<guiVars, mergeVars, steelVars, translateVars, cloudVars>>

(* line 593-599: the progress ticker *)
OcrTick ==
  /\ "ticker" \in timers
  /\ elapsedSeconds < 2 * MaxTicks
  /\ elapsedSeconds' = elapsedSeconds + 2
  /\ progress' = Append(progress, Msg("processing", "backend"))
  /\ UNCHANGED <<pc, hasCallback, fileIsImage, signalGiven, hung, cancelRequested, timers, calls,
                 inflight, outcome>>
  /\ UNCHANGED ocrFrame
  /\ UNCHANGED <<guiVars, mergeVars, steelVars, translateVars, cloudVars>>

(* line 588: the 300 s timer fires and aborts the controller; once the call  *)
(* has settled the abort has no effect                                       *)
OcrTimeoutFires ==
  /\ "timeout" \in timers
  /\ IF pc = "fetching"
     THEN OcrCatch("AbortError", <<"The operation was aborted">>, timers \ {"timeout"})
     ELSE /\ timers' = timers \ {"timeout"}
          /\ UNCHANGED <<pc, progress, outcome, inflight, calls, elapsedSeconds>>
  /\ UNCHANGED <<hasCallback, fileIsImage, signalGiven, hung, cancelRequested>>
  /\ UNCHANGED ocrFrame
  /\ UNCHANGED <<guiVars, mergeVars, steelVars, translateVars, cloudVars>>

(* line 602-606: the caller aborts its signal while the call is running *)
OcrCallerAborts ==
  /\ signalGiven
  /\ ~cancelRequested
  /\ pc \in {"optimizing", "fetching", "readingBody", "readingErrorBody"}
  /\ cancelRequested' = TRUE
  /\ IF pc = "optimizing"
     THEN UNCHANGED <<pc, progress, outcome, inflight, calls, elapsedSeconds, timers>>
     ELSE IF pc = "readingErrorBody"
     THEN \* line 617: the rejection of response.json() is replaced by a default
          OcrCatch("Error", <<"Unknown error">>, timers)
     ELSE OcrCatch("AbortError", <<"The operation was aborted">>, timers)
  /\ UNCHANGED <<hasCallback, fileIsImage, signalGiven, hung>>
  /\ UNCHANGED ocrFrame
  /\ UNCHANGED <<guiVars, mergeVars, steelVars, translateVars, cloudVars>>

(* line 602-624: the response head arrives; both timers are cleared *)
OcrFetchResolves ==
  /\ pc = "fetching" /\ ~hung
  /\ timers' = {}
  /\ \/ /\ pc' = "readingBody"
        /\ progress' = EmitOuter(<<Msg("processing response", "backend")>>)
     \/ /\ pc' = "readingErrorBody"
        /\ UNCHANGED progress
  /\ UNCHANGED <<hasCallback, fileIsImage, signalGiven, hung, cancelRequested, calls, inflight,
                 outcome, elapsedSeconds>>
  /\ UNCHANGED ocrFrame
  /\ UNCHANGED <<guiVars, mergeVars, steelVars, translateVars, cloudVars>>

(* line 602: fetch rejects (network failure) *)
OcrFetchRejects ==
  /\ pc = "fetching" /\ ~hung
  /\ OcrCatch("TypeError", <<"Failed to fetch">>, timers)
  /\ UNCHANGED <<hasCallback, fileIsImage, signalGiven, hung, cancelRequested>>
  /\ UNCHANGED ocrFrame
  /\ UNCHANGED <<guiVars, mergeVars, steelVars, translateVars, cloudVars>>

(* line 616-620: the body of an error response *)
OcrErrorBodyRead ==
  /\ pc = "readingErrorBody" /\ ~hung
  /\ \E d \in OcrErrorDetails : OcrCatch("Error", d, timers)
  /\ UNCHANGED <<hasCallback, fileIsImage, signalGiven, hung, cancelRequested>>
  /\ UNCHANGED ocrFrame
  /\ UNCHANGED <<guiVars, mergeVars, steelVars, translateVars, cloudVars>>

(* line 626-653: the body of a good response *)
OcrBodyRead ==
  /\ pc = "readingBody" /\ ~hung
  /\ \/ \E info \in {"none", "info", "reasoned"} :
          /\ progress' = EmitOuter(
               IF info = "none" THEN <<>>
               ELSE <<Msg("method", "backend"), Msg("time", "backend")>>
                    \o (IF info = "reasoned" THEN <<Msg("reason", "backend")>> ELSE <<>>))
          /\ outcome' = Returned([text |-> [json |-> "text", data |-> NoPayload],
                                  model |-> "backend"])
          /\ inflight' = {}
          /\ pc' = "done"
          /\ UNCHANGED <<timers, calls, elapsedSeconds>>
     \/ OcrCatch("Error", <<"Backend returned an empty answer">>, timers)
     \/ OcrCatch("SyntaxError", <<"Unexpected end of JSON input">>, timers)
  /\ UNCHANGED <<hasCallback, fileIsImage, signalGiven, hung, cancelRequested>>
  /\ UNCHANGED ocrFrame
  /\ UNCHANGED <<guiVars, mergeVars, steelVars, translateVars, cloudVars>>

OcrNext ==
  \/ OcrCall \/ OcrOptimized \/ OcrTick \/ OcrTimeoutFires \/ OcrCallerAborts
  \/ OcrFetchResolves \/ OcrFetchRejects \/ OcrErrorBodyRead \/ OcrBodyRead
  \/ NeverAnswered

SpecOcr == ChainInit /\ [][OcrNext]_vars

-----------------------------------------------------------------------------
(* gui.js: progress tracking (line 170-223)                                  *)

MAX_SUB_STEPS == 10

Upd(step, status, details) ==
  [fn |-> "updateProgress", step |-> step, status |-> status, details |-> details]

Sub(step, text) ==
  [fn |-> "addProgressSubStep", step |-> step, status |-> "", details |-> text]

Clr == [fn |-> "clearProgress", step |-> "", status |-> "", details |-> ""]

(* progressSteps.findIndex(s => s.id === id), 1-based; 0 where the code has -1 *)
findIndex(id) ==
  IF \E k \in 1..Len(progressSteps) : progressSteps[k].id = id
  THEN CHOOSE k \in 1..Len(progressSteps) :
         /\ progressSteps[k].id = id
         /\ \A j \in 1..(k - 1) : progressSteps[j].id # id
  ELSE 0

(* line 175-199: the value of progressSteps after updateProgress *)
updateProgress(step, status, details) ==
  LET stepIndex == findIndex(step)
  IN IF stepIndex = 0
     THEN Append(progressSteps, [id |-> step, status |-> status, details |-> details,
                                 timestamp |-> "pushed", subSteps |-> <<>>])
     ELSE [progressSteps EXCEPT ![stepIndex] =
             [@ EXCEPT !.status = status, !.details = details,
                       !.timestamp = IF status \in {"completed", "error"}
                                     THEN "settled" ELSE @]]

(* addProgressSubStep without the cap of line 212-214 *)
addProgressSubStepKeepsAll(stepId, subStepText) ==
  LET stepIndex == findIndex(stepId)
  IN IF stepIndex = 0 THEN progressSteps
     ELSE [progressSteps EXCEPT ![stepIndex].subSteps = Append(@, subStepText)]

(* line 201-217: the value of progressSteps after addProgressSubStep *)
addProgressSubStep(stepId, subStepText) ==
  LET stepIndex == findIndex(stepId)
  IN IF stepIndex = 0 THEN progressSteps
     ELSE LET pushed == Append(progressSteps[stepIndex].subSteps, subStepText)
          IN [progressSteps EXCEPT ![stepIndex].subSteps =
                IF Len(pushed) > MAX_SUB_STEPS THEN Tail(pushed) ELSE pushed]

(* One call of clearProgress, updateProgress or addProgressSubStep made by   *)
(* the synchronous segment that is running.                                  *)
ProgressEvent ==
  /\ events # <<>>
  /\ LET e == Head(events)
     IN /\ progressSteps' =
             CASE e.fn = "clearProgress" -> <<>>
               [] e.fn = "updateProgress" -> updateProgress(e.step, e.status, e.details)
               [] OTHER -> addProgressSubStep(e.step, e.details)
        /\ currentStepIndex' =
             CASE e.fn = "clearProgress" -> -1
               [] e.fn = "updateProgress" /\ findIndex(e.step) = 0 -> Len(progressSteps)
               [] OTHER -> currentStepIndex
  /\ events' = Tail(events)
  /\ UNCHANGED <<currentPdfFile, extractedData, translatedData, steelEquivData, requests,
                 handler>>
  /\ UNCHANGED <<chainVars, ocrVars, mergeVars, steelVars, translateVars, cloudVars>>

-----------------------------------------------------------------------------
(* gui.js: the click handler of processBtn (line 959-1164)                   *)

Req(r, kind, n) == [run |-> r, kind |-> kind, n |-> n]

RequestsOf(r) == {q \in requests : q.run = r}

(* line 935: a file is chosen *)
SelectFile ==
  /\ events = <<>>
  /\ ~currentPdfFile
  /\ currentPdfFile' = TRUE
  /\ UNCHANGED <<progressSteps, currentStepIndex, extractedData, translatedData, steelEquivData,
                 events, requests, handler>>
  /\ UNCHANGED <<chainVars, ocrVars, mergeVars, steelVars, translateVars, cloudVars>>

(* what a segment of the handler of run r leaves unchanged besides the       *)
(* fields it names                                                           *)
GuiKeeps == <<currentPdfFile, progressSteps, currentStepIndex>>

(* line 959-975: the click; the button is never disabled *)
Click(r) ==
  /\ events = <<>>
  /\ handler[r].pc = "idle"
  /\ currentPdfFile
  /\ events' = <<Clr, Upd("PDF Detection", "active", "Analyzing PDF structure")>>
  /\ handler' = [handler EXCEPT ![r] = [IdleHandler EXCEPT !.pc = "detecting"]]
  /\ UNCHANGED <<extractedData, translatedData, steelEquivData, requests>>
  /\ UNCHANGED GuiKeeps
  /\ UNCHANGED <<chainVars, ocrVars, mergeVars, steelVars, translateVars, cloudVars>>

(* line 526-541 of pdfProcessor.js, through the progressCallback of line 1074 *)
SendingSubSteps ==
  <<Sub("OCR Processing", "Sending file to backend API"),
    Sub("OCR Processing", "File size"),
    Sub("OCR Processing", "Languages"),
    Sub("OCR Processing", "Sending to backend OCR service")>>

(* line 976-1085: detectPdfType has resolved (it never rejects); the OCR     *)
(* step is opened and the file, or the cropped area, is sent                 *)
DetectDone(r) ==
  /\ events = <<>>
  /\ handler[r].pc = "detecting"
  /\ LET opened == <<Upd("PDF Detection", "completed", "Type"),
                     Upd("OCR Processing", "active", "Initializing OCR"),
                     Sub("OCR Processing", "Starting OCR processing"),
                     Sub("OCR Processing", "Languages")>>
         cropping(area) ==
                   <<Upd("OCR Processing", "active", "Preparing cropped area"),
                     Sub("OCR Processing", "Processing cropped area"),
                     Sub("OCR Processing", IF area = "polygon" THEN "Polygon bounds"
                                           ELSE "Crop position"),
                     Upd("OCR Processing", "active", "Extracting cropped image"),
                     Sub("OCR Processing", "Extracting image data")>>
     IN \/ \* line 1058-1085: no crop area
           /\ events' = opened \o
                <<Upd("OCR Processing", "active", "Converting PDF"),
                  Sub("OCR Processing", "Processing full PDF document"),
                  Sub("OCR Processing", "File size"),
                  Upd("OCR Processing", "active", "Sending PDF to the OCR engine"),
                  Sub("OCR Processing", "Sending to OCR"),
                  Upd("OCR Processing", "active", "Analyzing PDF"),
                  Sub("OCR Processing", "Waiting for AI response")>> \o SendingSubSteps
           /\ handler' = [handler EXCEPT ![r].pc = "ocr", ![r].callback = TRUE]
           /\ requests' = requests \cup {Req(r, "ocr backend", 1)}
        \/ \* line 1016-1025: the crop area gives an image
           \E area \in {"rectangle", "polygon"} :
             /\ events' = opened \o cropping(area) \o
                  <<Upd("OCR Processing", "active", "Converting cropped image"),
                    Sub("OCR Processing", "Image extracted"),
                    Upd("OCR Processing", "active", "Sending cropped image"),
                    Sub("OCR Processing", "Converting to blob")>>
             /\ handler' = [handler EXCEPT ![r].pc = "blob", ![r].cropped = TRUE]
             /\ UNCHANGED requests
        \/ \* line 1046-1056: getCroppedImage returned null; no progressCallback
           \E area \in {"rectangle", "polygon"} :
             /\ events' = opened \o cropping(area) \o
                  <<Sub("OCR Processing", "Failed to extract, falling back to full PDF"),
                    Upd("OCR Processing", "active", "Fallback: processing full PDF")>>
             /\ handler' = [handler EXCEPT ![r].pc = "ocr"]
             /\ requests' = requests \cup {Req(r, "ocr backend", 1)}
  /\ UNCHANGED <<extractedData, translatedData, steelEquivData>>
  /\ UNCHANGED GuiKeeps
  /\ UNCHANGED <<chainVars, ocrVars, mergeVars, steelVars, translateVars, cloudVars>>

(* line 1025-1038: the data URL has been read into a blob *)
BlobDone(r) ==
  /\ events = <<>>
  /\ handler[r].pc = "blob"
  /\ events' = <<Sub("OCR Processing", "File created"),
                 Upd("OCR Processing", "active", "Analyzing image"),
                 Sub("OCR Processing", "Sending to OCR")>> \o SendingSubSteps
  /\ handler' = [handler EXCEPT ![r].pc = "ocr", ![r].callback = TRUE]
  /\ requests' = requests \cup {Req(r, "ocr backend", 1)}
  /\ UNCHANGED <<extractedData, translatedData, steelEquivData>>
  /\ UNCHANGED GuiKeeps
  /\ UNCHANGED <<chainVars, ocrVars, mergeVars, steelVars, translateVars, cloudVars>>

(* line 1151-1163: the catch of the handler *)
CatchEvents ==
  IF Len(progressSteps) > 0
  THEN LET lastStep == progressSteps[Len(progressSteps)]
       IN IF lastStep.status = "active"
          THEN <<Upd(lastStep.id, "error", "error.message")>>
          ELSE <<Upd("Error", "error", "error.message")>>
  ELSE <<>>

(* an exception reaches the catch of the handler *)
Throw(r, reqs) ==
  /\ events' = CatchEvents
  /\ handler' = [handler EXCEPT ![r] = IdleHandler]
  /\ requests' = reqs
  /\ UNCHANGED <<extractedData, translatedData, steelEquivData>>

(* line 1138-1149: the results are rendered, then sendToTelegramIfConfigured *)
(* (line 1407-1430) sends the draft when a bot token and a chat id are set   *)
Finalize(r, pre, reqs) ==
  /\ events' = pre \o <<Upd("Finalizing", "active", "Rendering results"),
                        Upd("Finalizing", "completed", "All done")>>
  /\ \/ /\ handler' = [handler EXCEPT ![r] = [IdleHandler EXCEPT !.pc = "telegram"]]
        /\ requests' = reqs \cup {Req(r, "telegram", 1)}
     \/ /\ handler' = [handler EXCEPT ![r] = IdleHandler]
        /\ requests' = reqs

(* line 1118-1135: the steel lookups start, or are skipped; data is the      *)
(* module-level extractedData as it is when the handler reads it             *)
SteelStage(r, pre, reqs, data) ==
  \/ /\ Len(data.materials) > 0
     /\ events' = pre \o <<Upd("Steel Equivalents", "active", "Finding equivalents"),
                           Upd("Steel Equivalents", "active", "Looking up")>>
     /\ steelEquivData' = {}
     /\ handler' = [handler EXCEPT ![r] =
                      [IdleHandler EXCEPT !.pc = "steel", !.i = 1,
                                          !.items = <<data.materials[1]>>]]
     /\ requests' = reqs \cup {Req(r, "steel", 1)}
  \/ /\ UNCHANGED steelEquivData
     /\ Finalize(r, pre \o <<Upd("Steel Equivalents", "completed", "Skipped")>>, reqs)

(* the fields of the extracted data translateExtractedData maps over, in the *)
(* order of translator.js line 109-114; rawText is a single text             *)
TranslationLists == <<"materials", "standards", "heatTreatment", "rawText">>

TranslateKind == <<"translate materials", "translate standards", "translate heatTreatment",
                   "translate rawText">>

TranslateReq(r, list, k) == Req(r, TranslateKind[list], k)

ListOf(data, n) ==
  IF TranslationLists[n] = "rawText" THEN <<data.rawText>> ELSE data[TranslationLists[n]]

(* Promise.all over an empty array resolves with [] *)
RECURSIVE SkipEmpty(_, _, _)
SkipEmpty(data, n, acc) ==
  IF n <= Len(TranslationLists) /\ ListOf(data, n) = <<>>
  THEN SkipEmpty(data, n + 1, Append(acc, <<>>))
  ELSE [list |-> n, translated |-> acc]

(* translateToEnglish has been called for every element: each call is at    *)
(* its await import('./config.js') (translator.js line 72)                   *)
Importing(texts) ==
  [k \in 1..Len(texts) |-> [text |-> texts[k], st |-> "importing", via |-> ""]]

(* translator.js line 108-115: the object translateExtractedData returns *)
(* a record that keeps only the entries the service translated *)
TranslatedRecordDropsFailed(data, translated) ==
  LET ByService(e) == e.via = "api"
  IN [materials |-> SelectSeq(translated[1], ByService),
      standards |-> SelectSeq(translated[2], ByService),
      raValues |-> data.raValues, fits |-> data.fits,
      heatTreatment |-> SelectSeq(translated[3], ByService),
      rawText |-> translated[4][1]]

TranslatedRecord(data, translated) ==
  [materials |-> translated[1], standards |-> translated[2], raValues |-> data.raValues,
   fits |-> data.fits, heatTreatment |-> translated[3], rawText |-> translated[4][1]]

(* line 1106-1116: translation starts, or is skipped *)
TranslateStage(r, pre, reqs, data) ==
  \/ LET first == SkipEmpty(data, 1, <<>>)
     IN /\ events' = pre \o <<Upd("Translation", "active", "Translating to English")>>
        /\ handler' = [handler EXCEPT ![r] =
                         [IdleHandler EXCEPT !.pc = "translating", !.data = data,
                                             !.list = first.list,
                                             !.items = Importing(ListOf(data, first.list)),
                                             !.translated = first.translated]]
        /\ requests' = reqs
        /\ UNCHANGED <<translatedData, steelEquivData>>
  \/ /\ translatedData' = data
     /\ SteelStage(r, pre \o <<Upd("Translation", "completed", "Skipped")>>, reqs, data)

(* line 1038-1100, 1079-1100: processPdfWithOCR has returned *)
OcrPost(h) ==
  (IF h.callback
   THEN <<Sub("OCR Processing", IF h.cropped THEN "OCR completed on cropped area"
                                ELSE "OCR completed on full PDF"),
          Sub("OCR Processing", "Model used"),
          Sub("OCR Processing", "Confidence")>>
   ELSE <<>>)
  \o <<Upd("OCR Processing", "completed", "characters extracted"),
       Sub("OCR Processing", "Text length"),
       Upd("Data Extraction", "active", "Extracting materials, standards, and technical data")>>

CallbackSubSteps(h, texts) ==
  IF h.callback THEN [k \in 1..Len(texts) |-> Sub("OCR Processing", texts[k])] ELSE <<>>

(* pdfProcessor.js line 544-576: the backend answers with a result *)
GuiBackendOk(r) ==
  /\ events = <<>>
  /\ Req(r, "ocr backend", 1) \in requests
  /\ \E info \in BOOLEAN :
       events' = CallbackSubSteps(handler[r],
                   <<"Processing response from backend">>
                   \o (IF info THEN <<"Method used", "Actual time", "Reasoning">> ELSE <<>>))
                 \o OcrPost(handler[r])
  /\ handler' = [handler EXCEPT ![r] = [IdleHandler EXCEPT !.pc = "extracting"]]
  /\ requests' = (requests \ {Req(r, "ocr backend", 1)}) \cup {Req(r, "extract openrouter", 1)}
  /\ UNCHANGED <<extractedData, translatedData, steelEquivData>>
  /\ UNCHANGED GuiKeeps
  /\ UNCHANGED <<chainVars, ocrVars, mergeVars, steelVars, translateVars, cloudVars>>

(* pdfProcessor.js line 577-598: the backend fails; a configuration error is *)
(* thrown, any other error starts the Groq fallback                          *)
GuiBackendFails(r) ==
  /\ events = <<>>
  /\ Req(r, "ocr backend", 1) \in requests
  /\ \/ Throw(r, requests \ {Req(r, "ocr backend", 1)})
     \/ /\ events' = CallbackSubSteps(handler[r], <<"Backend failed, trying direct Groq API">>)
        /\ requests' = (requests \ {Req(r, "ocr backend", 1)}) \cup {Req(r, "ocr groq", 1)}
        /\ UNCHANGED <<handler, extractedData, translatedData, steelEquivData>>
  /\ UNCHANGED GuiKeeps
  /\ UNCHANGED <<chainVars, ocrVars, mergeVars, steelVars, translateVars, cloudVars>>

(* pdfProcessor.js line 591-601: the Groq fallback returns or throws *)
GuiGroqOcrSettles(r) ==
  /\ events = <<>>
  /\ Req(r, "ocr groq", 1) \in requests
  /\ \/ /\ events' = OcrPost(handler[r])
        /\ handler' = [handler EXCEPT ![r] = [IdleHandler EXCEPT !.pc = "extracting"]]
        /\ requests' = (requests \ {Req(r, "ocr groq", 1)}) \cup {Req(r, "extract openrouter", 1)}
        /\ UNCHANGED <<extractedData, translatedData, steelEquivData>>
     \/ Throw(r, requests \ {Req(r, "ocr groq", 1)})
  /\ UNCHANGED GuiKeeps
  /\ UNCHANGED <<chainVars, ocrVars, mergeVars, steelVars, translateVars, cloudVars>>

(* results of extractAllData: arrays of strings, numbers and the raw text *)
ExtractedShapes ==
  { [materials |-> <<>>, standards |-> <<>>, raValues |-> <<>>, fits |-> <<>>,
     heatTreatment |-> <<>>, rawText |-> "blank sheet"],
    [materials |-> <<"Stal 45", "40X">>, standards |-> <<>>, raValues |-> <<16, 32>>,
     fits |-> <<"H7/f7">>, heatTreatment |-> <<>>, rawText |-> "gear"] }

(* line 1102-1104: extractAllData has returned *)
AfterExtract(r, reqs, data) ==
  /\ extractedData' = data
  /\ TranslateStage(r, <<Upd("Data Extraction", "completed", "materials, standards found")>>,
                    reqs, data)

(* dataExtractor.js line 438-447, 455-486: OpenRouter answers; a field that  *)
(* cannot be spread makes the merge throw; a failure starts the Groq request *)
GuiOpenRouterSettles(r) ==
  /\ events = <<>>
  /\ Req(r, "extract openrouter", 1) \in requests
  /\ LET reqs == requests \ {Req(r, "extract openrouter", 1)}
     IN \/ \E data \in ExtractedShapes : AfterExtract(r, reqs, data)
        \/ Throw(r, reqs)
        \/ /\ requests' = reqs \cup {Req(r, "extract groq", 1)}
           /\ UNCHANGED <<events, handler, extractedData, translatedData, steelEquivData>>
  /\ UNCHANGED GuiKeeps
  /\ UNCHANGED <<chainVars, ocrVars, mergeVars, steelVars, translateVars, cloudVars>>

(* dataExtractor.js line 447-486: Groq answers or fails (aiData = null) *)
GuiGroqExtractSettles(r) ==
  /\ events = <<>>
  /\ Req(r, "extract groq", 1) \in requests
  /\ LET reqs == requests \ {Req(r, "extract groq", 1)}
     IN \/ \E data \in ExtractedShapes : AfterExtract(r, reqs, data)
        \/ Throw(r, reqs)
  /\ UNCHANGED GuiKeeps
  /\ UNCHANGED <<chainVars, ocrVars, mergeVars, steelVars, translateVars, cloudVars>>

(* translator.js line 72-86: the import has resolved and fetch is called *)
TranslateFetch(r, k) ==
  /\ events = <<>>
  /\ handler[r].pc = "translating"
  /\ k \in 1..Len(handler[r].items)
  /\ handler[r].items[k].st = "importing"
  /\ handler' = [handler EXCEPT ![r].items[k].st = "fetching"]
  /\ requests' = requests \cup {TranslateReq(r, handler[r].list, k)}
  /\ UNCHANGED <<events, extractedData, translatedData, steelEquivData>>
  /\ UNCHANGED GuiKeeps
  /\ UNCHANGED <<chainVars, ocrVars, mergeVars, steelVars, translateVars, cloudVars>>

(* the started list goes on while the previous one still has requests out *)
TranslateSettlesStartsNext(r, k) ==
  /\ events = <<>>
  /\ handler[r].pc = "translating"
  /\ TranslateReq(r, handler[r].list, k) \in requests
  /\ handler[r].list < Len(TranslationLists)
  /\ handler' = [handler EXCEPT
                   ![r].list = @ + 1,
                           ![r].translated = Append(@, <<>>),
                   ![r].items = Importing(<<handler[r].data.rawText>>)]
  /\ UNCHANGED <<events, requests, extractedData, translatedData, steelEquivData>>
  /\ UNCHANGED GuiKeeps
  /\ UNCHANGED <<chainVars, ocrVars, mergeVars, steelVars, translateVars, cloudVars>>

(* translator.js line 88-97, 109-114; gui.js line 1110-1112: a translation  *)
(* request settles; when it is the last of its list Promise.all resolves and *)
(* the next list is mapped, or translateExtractedData returns                *)
TranslateSettles(r, k) ==
  /\ events = <<>>
  /\ handler[r].pc = "translating"
  /\ TranslateReq(r, handler[r].list, k) \in requests
  /\ \E via \in {"api", "glossary"} :
       LET h == handler[r]
           items == [h.items EXCEPT ![k].st = "done", ![k].via = via]
           reqs == requests \ {TranslateReq(r, h.list, k)}
           results == [j \in 1..Len(items) |-> [text |-> items[j].text, via |-> items[j].via]]
           next == SkipEmpty(h.data, h.list + 1, Append(h.translated, results))
       IN IF \E j \in 1..Len(items) : items[j].st # "done"
          THEN /\ handler' = [handler EXCEPT ![r].items = items]
               /\ requests' = reqs
               /\ UNCHANGED <<events, translatedData, steelEquivData>>
          ELSE IF next.list <= Len(TranslationLists)
          THEN /\ handler' = [handler EXCEPT ![r].list = next.list,
                                             ![r].translated = next.translated,
                                             ![r].items = Importing(ListOf(h.data, next.list))]
               /\ requests' = reqs
               /\ UNCHANGED <<events, translatedData, steelEquivData>>
          ELSE /\ translatedData' = TranslatedRecord(h.data, next.translated)
               /\ SteelStage(r, <<Upd("Translation", "completed", "Translation completed")>>,
                             reqs, extractedData)
  /\ UNCHANGED extractedData
  /\ UNCHANGED GuiKeeps
  /\ UNCHANGED <<chainVars, ocrVars, mergeVars, steelVars, translateVars, cloudVars>>

(* line 1123-1132, steelEquivalents.js line 89-124: a lookup returns an      *)
(* equivalent (from the AI or the database) or null; the loop reads the      *)
(* module-level extractedData again                                          *)
SteelSettles(r) ==
  /\ events = <<>>
  /\ handler[r].pc = "steel"
  /\ Req(r, "steel", handler[r].i) \in requests
  /\ \E equiv \in {"ai", "database", "null"} :
       LET h == handler[r]
           reqs == requests \ {Req(r, "steel", h.i)}
           found == IF equiv = "null" THEN steelEquivData
                    ELSE {e \in steelEquivData : e.grade # h.items[1]}
                           \cup {[grade |-> h.items[1], from |-> equiv]}
       IN /\ steelEquivData' = found
          /\ IF h.i < Len(extractedData.materials)
             THEN /\ events' = <<Upd("Steel Equivalents", "active", "Looking up")>>
                  /\ handler' = [handler EXCEPT ![r].i = h.i + 1,
                                   ![r].items = <<extractedData.materials[h.i + 1]>>]
                  /\ requests' = reqs \cup {Req(r, "steel", h.i + 1)}
             ELSE Finalize(r, <<Upd("Steel Equivalents", "completed", "equivalents found")>>,
                           reqs)
  /\ UNCHANGED <<extractedData, translatedData>>
  /\ UNCHANGED GuiKeeps
  /\ UNCHANGED <<chainVars, ocrVars, mergeVars, steelVars, translateVars, cloudVars>>

(* line 1415-1429: the draft is sent, or the error is logged *)
TelegramSettles(r) ==
  /\ events = <<>>
  /\ handler[r].pc = "telegram"
  /\ Req(r, "telegram", 1) \in requests
  /\ handler' = [handler EXCEPT ![r] = IdleHandler]
  /\ requests' = requests \ {Req(r, "telegram", 1)}
  /\ UNCHANGED <<events, extractedData, translatedData, steelEquivData>>
  /\ UNCHANGED GuiKeeps
  /\ UNCHANGED <<chainVars, ocrVars, mergeVars, steelVars, translateVars, cloudVars>>

(* the user clicks again only after the handler has returned *)
GuiNext ==
  \/ ProgressEvent
  \/ SelectFile
  \/ \E r \in {"first"} :
       \/ Click(r) \/ DetectDone(r) \/ BlobDone(r)
       \/ GuiBackendOk(r) \/ GuiBackendFails(r) \/ GuiGroqOcrSettles(r)
       \/ GuiOpenRouterSettles(r) \/ GuiGroqExtractSettles(r)
       \/ \E k \in 1..2 : TranslateFetch(r, k) \/ TranslateSettles(r, k)
       \/ SteelSettles(r) \/ TelegramSettles(r)

(* the panel as the script leaves it; the key is configured *)
GuiStart == ChainInit /\ apiKeySet

SpecGui == GuiStart /\ [][GuiNext]_vars

(* the user may click at any time: two handlers, followed through their OCR *)
(* stage                                                                     *)
OverlapNext ==
  \/ ProgressEvent
  \/ SelectFile
  \/ \E r \in Runs :
       \/ Click(r) \/ DetectDone(r) \/ BlobDone(r)
       \/ GuiBackendOk(r) \/ GuiBackendFails(r) \/ GuiGroqOcrSettles(r)
       \/ GuiOpenRouterSettles(r) \/ GuiGroqExtractSettles(r)

SpecOverlap == GuiStart /\ [][OverlapNext]_vars

-----------------------------------------------------------------------------
(* dataExtractor.js: the merge of extractAllData, computed several times in  *)
(* one engine.  What sort does with an inconsistent comparator is up to the  *)
(* engine, but an engine is a program: the same array gives the same order.  *)

MaxMerges == 2

(* AI records the merge accepts, differing in the roughness values *)
MergeInputs ==
  {d \in Payloads : d.materials = Undef /\ d.fits = Arr(<<>>) /\ ~MergeThrows(d)}

(* line 470: the array handed to sort *)
SortInput(ai, text) == MergeField(ai, RegexData(text), "raValues")

(* a merge whose sort may order the same array differently each time *)
MergeCallAnyOrder ==
  /\ Len(mergeLog) < MaxMerges
  /\ \E ai \in MergeInputs, text \in ChainTexts :
       \E m \in Merge(ai, RegexData(text), text) :
         /\ sortImpl' = sortImpl \cup {<<SortInput(ai, text), m.raValues>>}
         /\ mergeLog' = Append(mergeLog, [ai |-> ai, text |-> text, out |-> m])
  /\ UNCHANGED <<chainVars, ocrVars, guiVars, steelVars, translateVars, cloudVars>>

(* line 465-474: one more merge in the same engine *)
MergeCall ==
  /\ Len(mergeLog) < MaxMerges
  /\ \E ai \in MergeInputs, text \in ChainTexts :
       \E m \in Merge(ai, RegexData(text), text) :
         /\ \A p \in sortImpl : p[1] = SortInput(ai, text) => p[2] = m.raValues
         /\ sortImpl' = sortImpl \cup {<<SortInput(ai, text), m.raValues>>}
         /\ mergeLog' = Append(mergeLog, [ai |-> ai, text |-> text, out |-> m])
  /\ UNCHANGED <<chainVars, ocrVars, guiVars, steelVars, translateVars, cloudVars>>

SpecMerge == ChainInit /\ [][MergeCall]_vars

-----------------------------------------------------------------------------
(* steelEquivalents.js: findSteelEquivalents.  A grade is a sequence of      *)
(* characters; a Cyrillic letter is written cy_ and its transliteration, in  *)
(* the case of the letter.                                                   *)

Str(s) == [t |-> "string", s |-> s]

(* line 7-64: the keys of STEEL_EQUIVALENTS in the order Object.entries      *)
(* yields them: the integer keys ascending, then the others as written       *)
Entries ==
  << <<"2", "0">>,
     <<"4", "5">>,
     <<"4", "0", "cy_KH">>,
     <<"4", "5", "cy_KH", "cy_N", "cy_M", "cy_F", "cy_A">>,
     <<"3", "0", "cy_KH", "cy_G", "cy_S", "cy_A">>,
     <<"1", "2", "cy_KH", "1", "8", "cy_N", "1", "0", "cy_T">>,
     <<"0", "8", "cy_KH", "1", "8", "cy_N", "1", "0">>,
     <<"6", "5", "cy_G">> >>

(* the value stored under a key *)
STEEL_EQUIVALENTS(key) == [t |-> "entry", key |-> key]

IsKey(s) == \E k \in 1..Len(Entries) : Entries[k] = s

(* String.prototype.toUpperCase, one character *)
UpperChar(c) ==
  CASE c = "cy_s" -> "cy_S" [] c = "cy_t" -> "cy_T" [] c = "cy_a" -> "cy_A"
    [] c = "cy_l" -> "cy_L" [] c = "cy_soft" -> "cy_SOFT" [] c = "cy_kh" -> "cy_KH"
    [] c = "cy_m" -> "cy_M" [] c = "cy_r" -> "cy_R" [] c = "cy_k" -> "cy_K"
    [] c = "cy_o" -> "cy_O" [] c = "cy_n" -> "cy_N" [] c = "cy_z" -> "cy_Z"
    [] OTHER -> c

(* line 76-80: the Cyrillic capitals that have a Latin look-alike *)
CyrToLat(c) ==
  CASE c = "cy_A" -> "A" [] c = "cy_V" -> "B" [] c = "cy_E" -> "E" [] c = "cy_K" -> "K"
    [] c = "cy_M" -> "M" [] c = "cy_N" -> "H" [] c = "cy_O" -> "O" [] c = "cy_R" -> "P"
    [] c = "cy_S" -> "C" [] c = "cy_T" -> "T" [] c = "cy_U" -> "Y" [] c = "cy_KH" -> "X"
    [] OTHER -> c

Upper(s) == [k \in 1..Len(s) |-> UpperChar(s[k])]

(* line 72: the alternatives of the prefix pattern, in the order they are    *)
(* tried, compared without regard to case                                    *)
Prefixes ==
  << <<"cy_S", "cy_T", "cy_A", "cy_L", "cy_SOFT">>,
     <<"cy_S", "cy_T", ".">>,
     <<"cy_S", "cy_T">>,
     <<"cy_M", "cy_A", "cy_R", "cy_K", "cy_A">> >>

StartsWith(s, p) == Len(s) >= Len(p) /\ Upper(SubSeq(s, 1, Len(p))) = p

RECURSIVE SkipSpaces(_)
SkipSpaces(s) == IF s # <<>> /\ s[1] = " " THEN SkipSpaces(Tail(s)) ELSE s

(* line 72: .replace(/^(prefix)\s*/i, '') *)
StripPrefix(s) ==
  IF \E k \in 1..Len(Prefixes) : StartsWith(s, Prefixes[k])
  THEN LET first == CHOOSE k \in 1..Len(Prefixes) :
                      /\ StartsWith(s, Prefixes[k])
                      /\ \A j \in 1..(k - 1) : ~StartsWith(s, Prefixes[j])
       IN SkipSpaces(SubSeq(s, Len(Prefixes[first]) + 1, Len(s)))
  ELSE s

(* line 69-83: the prefix goes, then all white space (line 73), then upper  *)
(* case and the look-alike letters                                           *)
normalizeSteelGrade(s) ==
  LET NotSpace(c) == c # " "
      u == Upper(SelectSeq(StripPrefix(s), NotSpace))
  IN [k \in 1..Len(u) |-> CyrToLat(u[k])]

(* String.prototype.includes *)
includes(s, sub) ==
  \E start \in 1..(Len(s) - Len(sub) + 1) : SubSeq(s, start, start + Len(sub) - 1) = sub

(* .replace(/\D/g, '') *)
DigitsOf(s) ==
  LET IsDigit(c) == c \in {"0", "1", "2", "3", "4", "5", "6", "7", "8", "9"}
  IN SelectSeq(s, IsDigit)

NormalizedMatch(normalized, key) == normalizeSteelGrade(key) = normalized

(* line 118 *)
PartialMatch(normalized, key) ==
  \/ includes(normalized, key)
  \/ includes(key, DigitsOf(normalized))

(* the value of the first of the entries at the given positions: the loop   *)
(* returns at the first key its test accepts                                 *)
FirstEntry(positions) ==
  STEEL_EQUIVALENTS(Entries[CHOOSE k \in positions : \A j \in positions : k <= j])

(* line 101-123: the database part *)
DatabaseLookup(grade) ==
  IF grade.t # "string" THEN Threw(<<"TypeError: grade.replace is not a function">>)
  ELSE LET normalized == normalizeSteelGrade(grade.s)
           byNormalized == {k \in 1..Len(Entries) : NormalizedMatch(normalized, Entries[k])}
           byPart == {k \in 1..Len(Entries) : PartialMatch(normalized, Entries[k])}
       IN IF IsKey(grade.s) THEN Returned(STEEL_EQUIVALENTS(grade.s))
          ELSE IF byNormalized # {} THEN Returned(FirstEntry(byNormalized))
          ELSE IF byPart # {} THEN Returned(FirstEntry(byPart))
          ELSE Returned(Null)

(* the materials a record of extractAllData may hold *)
Grades ==
  {Str(<<"4", "5">>), Str(<<"2", "0">>), Str(<<"4", "0", "cy_KH">>), Str(<<"4", "0", "X">>),
   Str(<<"4", "0", "cy_kh">>),
   Str(<<"cy_S", "cy_t", "cy_a", "cy_l", "cy_soft", " ", "4", "5">>),
   Str(<<"cy_S", "cy_t", "3">>), Str(<<"cy_S", "cy_t", ".", "2", "0">>),
   Str(<<"cy_B", "cy_r", "cy_o", "cy_n", "cy_z", "cy_a">>),
   Str(<<"9", "9">>), Str(<<"A", "I", "S", "I", " ", "3", "0", "4">>),
   Str(<<"cy_m", "cy_a", "cy_r", "cy_k", "cy_a", " ", "6", "5", "cy_G">>),
   Str(<<"cy_U", "8">>), Str(<<>>), Num(45)}

(* groqAgent.js line 405-409: { grade: steelGrade, ...data }, where the      *)
(* answer may carry a grade of its own                                       *)
AiEquivalents(grade) ==
  {[t |-> "object", grade |-> g, astm |-> "from AI"] : g \in {grade, Str(<<"C", "4", "5">>)}}

(* line 89-93: the call, up to the await of the AI lookup *)
SteelCall ==
  /\ steelPc = "idle"
  /\ \E g \in Grades : steelGrade' = g
  /\ steelPc' = "ai"
  /\ UNCHANGED <<steelAi, dbConsulted, steelOutcome>>
  /\ UNCHANGED <<chainVars, ocrVars, guiVars, mergeVars, translateVars, cloudVars>>

(* line 93-96; groqAgent.js line 397-409: a model answered with JSON *)
AiFindReturnsObject ==
  /\ steelPc = "ai"
  /\ apiKeySet
  /\ \E r \in AiEquivalents(steelGrade) :
       /\ steelAi' = r
       /\ steelOutcome' = Returned(r)
  /\ steelPc' = "done"
  /\ UNCHANGED <<steelGrade, dbConsulted>>
  /\ UNCHANGED <<chainVars, ocrVars, guiVars, mergeVars, translateVars, cloudVars>>

(* line 93-123; groqAgent.js line 410-413: no key, every model failed, or    *)
(* the answer is no JSON: the AI lookup returns null                         *)
AiFindReturnsNull ==
  /\ steelPc = "ai"
  /\ steelAi' = Null
  /\ dbConsulted' = TRUE
  /\ steelOutcome' = DatabaseLookup(steelGrade)
  /\ steelPc' = "done"
  /\ UNCHANGED steelGrade
  /\ UNCHANGED <<chainVars, ocrVars, guiVars, mergeVars, translateVars, cloudVars>>

(* line 92, 97-123: the import of groqAgent.js rejects *)
AiImportRejects ==
  /\ steelPc = "ai"
  /\ steelAi' = [t |-> "threw"]
  /\ dbConsulted' = TRUE
  /\ steelOutcome' = DatabaseLookup(steelGrade)
  /\ steelPc' = "done"
  /\ UNCHANGED steelGrade
  /\ UNCHANGED <<chainVars, ocrVars, guiVars, mergeVars, translateVars, cloudVars>>

SteelNext ==
  \/ SteelCall
  \/ AiFindReturnsObject
  \/ AiFindReturnsNull
  \/ AiImportRejects

SpecSteel == ChainInit /\ [][SteelNext]_vars

-----------------------------------------------------------------------------
(* translator.js: translateToEnglish *)

(* the Cyrillic letters of the texts below; \b and \w of a regular           *)
(* expression without the u flag know ASCII word characters only             *)
CyrillicLetters ==
  {"cy_S", "cy_s", "cy_T", "cy_t", "cy_A", "cy_a", "cy_L", "cy_l", "cy_SOFT", "cy_soft",
   "cy_G", "cy_g", "cy_O", "cy_o"}

IsWordChar(c) == c \notin CyrillicLetters \cup {" ", ".", ",", "/", "-"}

(* the i flag: characters are compared by their upper-case form; of the      *)
(* Latin letters only those of the keys are listed                           *)
FoldChar(c) ==
  CASE c = "r" -> "R" [] c = "a" -> "A" [] c = "z" -> "Z"
    [] c = "cy_g" -> "cy_G" [] OTHER -> UpperChar(c)

Fold(s) == [k \in 1..Len(s) |-> FoldChar(s[k])]

(* \b between s[p] and s[p + 1]; the ends of the text count as non-word *)
WordBoundary(s, p) ==
  LET before == p >= 1 /\ IsWordChar(s[p])
      after == p + 1 <= Len(s) /\ IsWordChar(s[p + 1])
  IN before # after

(* line 7-57: the entries of TECHNICAL_GLOSSARY written with the letters     *)
(* above, in the order of the object literal; every other key holds a letter *)
(* no text of the model holds                                                *)
TECHNICAL_GLOSSARY ==
  << << <<"cy_s", "cy_t", "cy_a", "cy_l", "cy_soft">>, <<"s", "t", "e", "e", "l">> >>,
     << <<"cy_S", "cy_t", "cy_a", "cy_l", "cy_soft">>, <<"S", "t", "e", "e", "l">> >>,
     << <<"cy_S", "cy_t", ".">>, <<"S", "t", "e", "e", "l">> >>,
     << <<"cy_G", "cy_O", "cy_S", "cy_T">>, <<"G", "O", "S", "T">> >>,
     << <<"cy_O", "cy_S", "cy_T">>, <<"O", "S", "T">> >>,
     << <<"R", "a">>, <<"R", "a">> >>,
     << <<"R", "z">>, <<"R", "z">> >> >>

(* line 67: new RegExp(`\\b${ru}\\b`, 'gi') matches at position p *)
MatchesAt(s, ru, p) ==
  /\ p + Len(ru) - 1 <= Len(s)
  /\ Fold(SubSeq(s, p, p + Len(ru) - 1)) = Fold(ru)
  /\ WordBoundary(s, p - 1)
  /\ WordBoundary(s, p + Len(ru) - 1)

(* line 68: translated.replace(regex, en), scanning from position p *)
RECURSIVE ReplaceFrom(_, _, _, _)
ReplaceFrom(s, ru, en, p) ==
  IF p > Len(s) THEN <<>>
  ELSE IF MatchesAt(s, ru, p) THEN en \o ReplaceFrom(s, ru, en, p + Len(ru))
  ELSE <<s[p]>> \o ReplaceFrom(s, ru, en, p + 1)

(* line 65-69: the loop over the entries, the first k of them *)
RECURSIVE GlossaryLoop(_, _)
GlossaryLoop(s, k) ==
  IF k = 0 THEN s
  ELSE LET sofar == GlossaryLoop(s, k - 1)
       IN ReplaceFrom(sofar, TECHNICAL_GLOSSARY[k][1], TECHNICAL_GLOSSARY[k][2], 1)

(* the arguments handed to translateToEnglish *)
TranslateTexts ==
  {Str(<<"R", "a", " ", "3", ".", "2">>), Str(<<"r", "a", " ", "3", ".", "2">>),
   Str(<<"R", "Z", " ", "4", "0">>),
   Str(<<"cy_S", "cy_t", "cy_a", "cy_l", "cy_soft", " ", "4", "5">>),
   Str(<<"4", "5", "cy_G", "cy_O", "cy_S", "cy_T", "1", "0", "5", "0">>),
   Str(<<"4", "0", "X">>), Str(<<>>), Null, Undef, Num(45)}

(* the values of translatedText in the service's answer; Undef where the     *)
(* body has no such property                                                 *)
TranslatedTexts ==
  {Str(<<"S", "t", "e", "e", "l", " ", "4", "5">>), Str(<<"R", "a", " ", "3", ".", "2">>),
   Str(<<>>), Undef}

(* the bodies response.json() resolves to *)
TranslateBodies == {[t |-> "object", translatedText |-> v] : v \in TranslatedTexts} \cup {Null}

(* the left operand of || is taken *)
Truthy(v) == v.t \notin {"undefined", "null"} /\ (v.t = "string" => v.s # <<>>)

(* line 62-72: the call, up to the await of the import; replace is no method *)
(* of a value that is not a string, and the TypeError is caught at line 98   *)
TranslateCall ==
  /\ trPc = "idle"
  /\ \E text \in TranslateTexts, useGlossary \in BOOLEAN :
       /\ trText' = text
       /\ trUseGlossary' = useGlossary
       /\ IF useGlossary /\ text.t # "string"
          THEN /\ trTranslated' = text
               /\ trOutcome' = Returned(text)
               /\ trPc' = "done"
          ELSE /\ trTranslated' = IF useGlossary
                                  THEN Str(GlossaryLoop(text.s, Len(TECHNICAL_GLOSSARY)))
                                  ELSE text
               /\ trOutcome' = Pending
               /\ trPc' = "importing"
  /\ UNCHANGED trAwaits
  /\ UNCHANGED <<chainVars, ocrVars, guiVars, mergeVars, steelVars, cloudVars>>

(* line 72-77: config.js is imported and the request is sent *)
ImportResolves ==
  /\ trPc = "importing"
  /\ trPc' = "fetching"
  /\ trAwaits' = [kind |-> "imported"]
  /\ UNCHANGED <<trText, trUseGlossary, trTranslated, trOutcome>>
  /\ UNCHANGED <<chainVars, ocrVars, guiVars, mergeVars, steelVars, cloudVars>>

(* line 72, 98-101: the import rejects, outside the inner try *)
TranslateImportRejects ==
  /\ trPc = "importing"
  /\ trPc' = "done"
  /\ trAwaits' = [kind |-> "import rejected"]
  /\ trOutcome' = Returned(trText)
  /\ UNCHANGED <<trText, trUseGlossary, trTranslated>>
  /\ UNCHANGED <<chainVars, ocrVars, guiVars, mergeVars, steelVars, cloudVars>>

(* a request whose failure gives the original text *)
TranslateFetchRejectsGivesOriginal ==
  /\ trPc = "fetching"
  /\ trPc' = "done"
  /\ trAwaits' = [kind |-> "fetch rejected"]
  /\ trOutcome' = Returned(trText)
  /\ UNCHANGED <<trText, trUseGlossary, trTranslated>>
  /\ UNCHANGED <<chainVars, ocrVars, guiVars, mergeVars, steelVars, cloudVars>>

(* line 77, 94-97: fetch rejects *)
TranslateFetchRejects ==
  /\ trPc = "fetching"
  /\ trPc' = "done"
  /\ trAwaits' = [kind |-> "fetch rejected"]
  /\ trOutcome' = Returned(trTranslated)
  /\ UNCHANGED <<trText, trUseGlossary, trTranslated>>
  /\ UNCHANGED <<chainVars, ocrVars, guiVars, mergeVars, steelVars, cloudVars>>

(* line 88, 91-97: the response is not ok *)
TranslateResponseNotOk ==
  /\ trPc = "fetching"
  /\ trPc' = "done"
  /\ trAwaits' = [kind |-> "not ok"]
  /\ trOutcome' = Returned(trTranslated)
  /\ UNCHANGED <<trText, trUseGlossary, trTranslated>>
  /\ UNCHANGED <<chainVars, ocrVars, guiVars, mergeVars, steelVars, cloudVars>>

(* line 88-89: the response is ok and its body is being read *)
TranslateResponseOk ==
  /\ trPc = "fetching"
  /\ trPc' = "json"
  /\ trAwaits' = [kind |-> "ok"]
  /\ UNCHANGED <<trText, trUseGlossary, trTranslated, trOutcome>>
  /\ UNCHANGED <<chainVars, ocrVars, guiVars, mergeVars, steelVars, cloudVars>>

(* line 89, 94-97: the body is no JSON *)
TranslateJsonRejects ==
  /\ trPc = "json"
  /\ trPc' = "done"
  /\ trAwaits' = [kind |-> "json rejected"]
  /\ trOutcome' = Returned(trTranslated)
  /\ UNCHANGED <<trText, trUseGlossary, trTranslated>>
  /\ UNCHANGED <<chainVars, ocrVars, guiVars, mergeVars, steelVars, cloudVars>>

(* line 89-90, 94-97: the body is read; a property of null cannot be read *)
TranslateJsonResolves ==
  /\ trPc = "json"
  /\ \E result \in TranslateBodies :
       /\ trAwaits' = [kind |-> "body", result |-> result]
       /\ trOutcome' = IF result # Null /\ Truthy(result.translatedText)
                       THEN Returned(result.translatedText)
                       ELSE Returned(trTranslated)
  /\ trPc' = "done"
  /\ UNCHANGED <<trText, trUseGlossary, trTranslated>>
  /\ UNCHANGED <<chainVars, ocrVars, guiVars, mergeVars, steelVars, cloudVars>>

TranslateNext ==
  \/ TranslateCall
  \/ ImportResolves
  \/ TranslateImportRejects
  \/ TranslateFetchRejects
  \/ TranslateResponseNotOk
  \/ TranslateResponseOk
  \/ TranslateJsonRejects
  \/ TranslateJsonResolves

SpecTranslate == ChainInit /\ [][TranslateNext]_vars

-----------------------------------------------------------------------------
(* gui.js: the cloud folder drawer *)

(* the folders of the model and the number of items the server holds in each *)
Folders == {"folder A", "folder B"}

FolderSize(url) == IF url = "folder A" THEN 120 ELSE 30

(* offsets beyond this one are not requested *)
MaxOffset == 200

(* the answer of a server that pages by offset and limit; a run of items is  *)
(* written as the positions of its first and last item                       *)
FolderPage(url, offset, limit) ==
  LET size == FolderSize(url)
      last == IF offset + limit < size THEN offset + limit - 1 ELSE size - 1
  IN [items |-> IF offset < size THEN <<[first |-> offset, last |-> last]>> ELSE <<>>,
      pagination |-> [offset |-> offset, has_more |-> offset + limit < size, total |-> size]]

CloudSettled == cloudPc \in {"idle", "loaded", "failed"}

(* line 1493-1552, 2124-2136: the button or the Enter key loads a folder, up *)
(* to the await of fetch; without a URL the function returns                 *)
LoadCloudFolder ==
  /\ CloudSettled
  /\ \E url \in Folders \cup {""} :
       IF url = ""
       THEN UNCHANGED cloudVars
       ELSE /\ cloudFolderPagination' = FreshPagination(url)
            /\ cloudAppend' = FALSE
            /\ cloudPc' = "fetching"
            /\ UNCHANGED cloudBefore
  /\ UNCHANGED <<chainVars, ocrVars, guiVars, mergeVars, steelVars, translateVars>>

(* line 1624-1631, 1493-1552: loadMoreCloudFiles, up to the await of fetch   *)
(* in loadCloudFolder(url, true), which keeps the state of the same URL      *)
loadMoreCloudFiles ==
  /\ CloudSettled
  /\ cloudFolderPagination.offset < MaxOffset
  /\ IF ~cloudFolderPagination.hasMore \/ cloudFolderPagination.url = ""
     THEN UNCHANGED cloudVars
     ELSE /\ cloudBefore' = cloudFolderPagination
          /\ cloudFolderPagination' =
               [cloudFolderPagination EXCEPT !.offset = @ + cloudFolderPagination.limit]
          /\ cloudAppend' = TRUE
          /\ cloudPc' = "fetching"
  /\ UNCHANGED <<chainVars, ocrVars, guiVars, mergeVars, steelVars, translateVars>>

(* line 1536-1550, 1591-1619: fetch rejects, the network having failed or    *)
(* the timer of line 1537 having aborted the request                         *)
CloudFetchRejects ==
  /\ cloudPc = "fetching"
  /\ \E name \in {"TypeError", "AbortError"} : cloudPc' = "failed"
  /\ UNCHANGED <<cloudFolderPagination, cloudAppend, cloudBefore>>
  /\ UNCHANGED <<chainVars, ocrVars, guiVars, mergeVars, steelVars, translateVars>>

(* line 1552-1558: the response is not ok and its text is being read *)
CloudResponseNotOk ==
  /\ cloudPc = "fetching"
  /\ cloudPc' = "text"
  /\ UNCHANGED <<cloudFolderPagination, cloudAppend, cloudBefore>>
  /\ UNCHANGED <<chainVars, ocrVars, guiVars, mergeVars, steelVars, translateVars>>

(* line 1558-1561, 1591-1619: the text is read, or cannot be, and the error  *)
(* is caught                                                                 *)
CloudErrorCaught ==
  /\ cloudPc = "text"
  /\ cloudPc' = "failed"
  /\ UNCHANGED <<cloudFolderPagination, cloudAppend, cloudBefore>>
  /\ UNCHANGED <<chainVars, ocrVars, guiVars, mergeVars, steelVars, translateVars>>

(* line 1552-1563: the response is ok and its body is being read *)
CloudResponseOk ==
  /\ cloudPc = "fetching"
  /\ cloudPc' = "json"
  /\ UNCHANGED <<cloudFolderPagination, cloudAppend, cloudBefore>>
  /\ UNCHANGED <<chainVars, ocrVars, guiVars, mergeVars, steelVars, translateVars>>

(* line 1563, 1591-1619: the body is no JSON *)
CloudJsonRejects ==
  /\ cloudPc = "json"
  /\ cloudPc' = "failed"
  /\ UNCHANGED <<cloudFolderPagination, cloudAppend, cloudBefore>>
  /\ UNCHANGED <<chainVars, ocrVars, guiVars, mergeVars, steelVars, translateVars>>

(* line 1563-1590: the page is read into the pagination state; an offset of  *)
(* 0 in the answer keeps the offset of the state                             *)
CloudJsonResolves ==
  /\ cloudPc = "json"
  /\ LET p == cloudFolderPagination
         data == FolderPage(p.url, p.offset, p.limit)
     IN cloudFolderPagination' =
          [p EXCEPT !.offset = IF data.pagination.offset # 0 THEN data.pagination.offset
                               ELSE p.offset,
                    !.hasMore = data.pagination.has_more,
                    !.total = data.pagination.total,
                    !.loadedFiles = p.loadedFiles \o data.items]
  /\ cloudPc' = "loaded"
  /\ UNCHANGED <<cloudAppend, cloudBefore>>
  /\ UNCHANGED <<chainVars, ocrVars, guiVars, mergeVars, steelVars, translateVars>>

CloudNext ==
  \/ LoadCloudFolder
  \/ loadMoreCloudFiles
  \/ CloudFetchRejects
  \/ CloudResponseNotOk
  \/ CloudErrorCaught
  \/ CloudResponseOk
  \/ CloudJsonRejects
  \/ CloudJsonResolves

SpecCloud == ChainInit /\ [][CloudNext]_vars

-----------------------------------------------------------------------------
(* Properties of the fallback chains *)

GroqWon == groqResult # NoValue

AllModelsFailed == Len(failLog) = Len(Models)

(* the message carries the reason: every fragment of the reason is in it *)
Carries(msg, reason) == \A k \in 1..Len(reason) : Includes(msg, reason[k])

(* C1: first success wins.  Once a model of the cascade has answered         *)
(* acceptably, the result names that model, every model before it was tried  *)
(* once and failed, and no model after it is requested; extractAllData takes *)
(* the data of OpenRouter without calling Groq when OpenRouter succeeds, and *)
(* the data of the winning Groq model when OpenRouter failed.                *)
C1_FirstSuccessWins ==
  /\ GroqWon =>
       \E k \in 1..Len(Models) :
         /\ groqResult.model = Models[k]
         /\ Len(failLog) = k - 1
         /\ \A j \in 1..Len(Models) : calls.groq[j] = IF j <= k THEN 1 ELSE 0
  /\ (GroqWon /\ pc = "done" /\ caller \in OcrCallers) =>
       outcome = Returned([text |-> groqResult.content, model |-> groqResult.model])
  /\ (entry = "extractAllData" /\ caller = "none") => calls.groq = <<0, 0, 0>>
  /\ (entry = "extractAllData" /\ pc = "done" /\ GroqWon) =>
       /\ calls.openrouter = 1
       /\ aiData = StructuredData(groqResult.content)
       /\ outcome \in ExtractFinish(aiData)

C1_Witness ==
  /\ entry = "extractAllData"
  /\ pc = "done"
  /\ GroqWon
  /\ groqResult.model = Models[2]
  /\ failLog = <<<<"HTTP 500">>>>
  /\ calls.groq[3] = 0
  /\ outcome.kind = "returned"

(* C2: fatal short-circuit.  After an attempt has failed for authentication  *)
(* or configuration, no later entry of the chain is requested, and the call  *)
(* ends with a failure.                                                      *)
C2_FatalShortCircuit ==
  \A k \in 1..Len(failLog) :
    IsAuthFailure(failLog[k]) =>
      /\ \A j \in (k + 1)..Len(Models) : calls.groq[j] = 0
      /\ pc = "done" => outcome.kind = "threw"

Reasons == ModelFailures \cup BackendErrors

ReasonsCarried(msg) == {r \in Reasons : Carries(msg, r)}

(* C3 as stated: on exhaustion the failure carries the reason of the last    *)
(* failed attempt and the reason of no earlier attempt of the chain.         *)
C3_CarriesOnlyLast ==
  (pc = "done" /\ caller \in OcrCallers /\ AllModelsFailed) =>
    /\ outcome.kind = "threw"
    /\ ReasonsCarried(outcome.message) = {failLog[Len(failLog)]}

(* C3 amended: on exhaustion callGroqAPI throws one error, made of the       *)
(* all-failed text and the message of the last failed model only; the OCR    *)
(* wrappers pass it on under their prefix, and processPdfWithOCR puts the    *)
(* backend's reason, the first failure of its chain, in front of it.         *)
C3_ExhaustionCarriesLast ==
  /\ (pc = "calleeThrew" /\ AllModelsFailed) =>
       thrown = <<"All models failed. Last error: ">> \o failLog[Len(failLog)]
  /\ (pc = "done" /\ caller \in OcrCallers /\ AllModelsFailed) =>
       LET last == OcrPrefix \o <<"All models failed. Last error: ">> \o failLog[Len(failLog)]
       IN outcome = IF entry = "processPdfWithOCR"
                    THEN Threw(FallbackFailed(backendError, last))
                    ELSE Threw(last)

C3_Witness ==
  /\ entry = "processPdfWithOCR"
  /\ pc = "done"
  /\ AllModelsFailed
  /\ failLog[1] = <<"HTTP 429">>
  /\ failLog[3] = <<"Invalid response format">>
  /\ backendError = <<"Failed to fetch">>
  /\ outcome.kind = "threw"

(* C4: cancellation between attempts.  Once the caller has cancelled, a loop *)
(* that stands between two attempts starts no further attempt.               *)
C4_CancelBetweenAttempts ==
  [][(cancelRequested /\ pc = "groqLoop" /\ i > 1) => calls' = calls]_vars

(* C7: extractAllData never throws; whatever the providers answer it ends by *)
(* returning a record.                                                       *)
C7_ExtractNeverThrows ==
  (entry = "extractAllData" /\ pc = "done") => outcome.kind = "returned"

(* C8: empty input fails fast; with an empty text no request is made and the *)
(* call ends in a failure.                                                   *)
C8_EmptyInputNoAttempt ==
  (entry = "extractAllData" /\ ocrText = <<>>) =>
    /\ calls = ZeroCalls
    /\ pc = "done" => outcome.kind = "threw"

ExtractReturned == entry = "extractAllData" /\ pc = "done" /\ outcome.kind = "returned"

Has(s, x) == \E k \in 1..Len(s) : s[k] = x

(* C13: the pattern extractor always contributes.  The record extractAllData *)
(* returns, whichever provider answered and also when none did, holds every  *)
(* entry the pattern extractors find in the text, in every field.            *)
C13_PatternContributes ==
  ExtractReturned =>
    \A f \in Fields :
      \A k \in 1..Len(RegexData(ocrText)[f]) :
        Has(outcome.value[f], RegexData(ocrText)[f][k])

(* an AI provider answered, and the record holds a value only the patterns found *)
C13_Witness ==
  /\ ExtractReturned
  /\ aiData # Null
  /\ aiData.raValues = Arr(<<RaNum(32), RaNum(8), RaNum(32)>>)
  /\ Has(outcome.value.raValues, RaNum(16))

OrderedSetFields == {"materials", "standards", "fits", "heatTreatment"}

(* the sequence a without repeats, then the entries of p that a does not hold *)
AiThenNew(a, p) ==
  LET IsNew(x) == ~Has(a, x)
  IN Dedup(a) \o SelectSeq(p, IsNew)

(* C14: merge of an ordered-set field.  The merged field is the AI record's  *)
(* sequence with duplicates removed, followed by the pattern record's        *)
(* entries that are not already present, in first-seen order.                *)
C14_OrderedSetMerge ==
  (ExtractReturned /\ aiData # Null) =>
    \A f \in OrderedSetFields :
      outcome.value[f] = AiThenNew(Spread(OrEmpty(aiData[f])), RegexData(ocrText)[f])

(* the AI record repeats an entry, and the patterns find one it already has *)
C14_Witness ==
  /\ ExtractReturned
  /\ aiData # Null
  /\ aiData.materials = Arr(<<"40X", "45", "40X">>)
  /\ RegexData(ocrText).materials = <<"45">>
  /\ outcome.value.materials = <<"40X", "45">>

(* C15: merge of roughness values.  When every entry is a number in some     *)
(* representation, the merged raValues holds each numeric value once, in     *)
(* ascending order.                                                          *)
C15_NumericUnionSorted ==
  (ExtractReturned /\ \A k \in 1..Len(outcome.value.raValues) : ~IsNaN(outcome.value.raValues[k]))
    => \A j, k \in 1..Len(outcome.value.raValues) :
         j < k => outcome.value.raValues[j].n < outcome.value.raValues[k].n

(* C16: record invariant.  In every record extractAllData returns no field   *)
(* holds an exact duplicate and the numbers of raValues ascend.              *)
C16_RecordInvariant ==
  ExtractReturned =>
    /\ \A f \in Fields : \A j, k \in 1..Len(outcome.value[f]) :
         outcome.value[f][j] = outcome.value[f][k] => j = k
    /\ \A j, k \in 1..Len(outcome.value.raValues) :
         (j < k /\ ~IsNaN(outcome.value.raValues[j]) /\ ~IsNaN(outcome.value.raValues[k]))
           => outcome.value.raValues[j].n <= outcome.value.raValues[k].n

(* C17: a malformed response is a retriable failure of that attempt.  When  *)
(* the answer of a model cannot be parsed the next model of the list is      *)
(* tried, so the extraction ends on an unparseable answer only when it came  *)
(* from the last model.                                                      *)
C17_MalformedRetriable ==
  (entry = "extractAllData" /\ pc = "done" /\ GroqWon
     /\ groqResult.content.json \in {"embeddedBad", "none"})
    => groqResult.model = Models[Len(Models)]

(* callGroqAPI has thrown (the other throw of the callers is the FileReader's) *)
GroqThrew == pc = "calleeThrew" /\ thrown # <<"FileReader error">>

InListOrder ==
  /\ \A j \in 1..Len(Models) : calls.groq[j] <= 1
  /\ \A j \in 2..Len(Models) :
       calls.groq[j] = 1 => (calls.groq[j - 1] = 1 /\ Len(failLog) >= j - 1)

(* C18 as stated: callGroqAPI tries its models in list order, each at most   *)
(* once, and reports a failure only after every model has been tried and has *)
(* failed.                                                                   *)
C18_FailsOnlyAfterAll ==
  /\ InListOrder
  /\ GroqThrew => (AllModelsFailed /\ \A j \in 1..Len(Models) : calls.groq[j] = 1)

(* C18: nested model cascade.  callGroqAPI tries its models in list order,   *)
(* each at most once.  It reports a failure either before the first model,   *)
(* when no API key is configured, or after every model of the list has been  *)
(* tried and has failed.                                                     *)
C18_NestedCascade ==
  /\ InListOrder
  /\ GroqThrew =>
       \/ /\ ~apiKeySet
          /\ Includes(thrown, KEY_MSG)
          /\ calls.groq = <<0, 0, 0>>
       \/ /\ AllModelsFailed
          /\ \A j \in 1..Len(Models) : calls.groq[j] = 1
          /\ thrown[1] = "All models failed. Last error: "

(* every model was requested once, each failed, and the cascade has thrown *)
C18_Witness ==
  /\ GroqThrew
  /\ AllModelsFailed
  /\ calls.groq = <<1, 1, 1>>

(* a progress event that reports the failure of a model *)
IsFailureEvent(m) == m.k \in {"failed", "failed, trying next"}

(* C19: whenever a progress callback is supplied to callGroqAPI, every model *)
(* failure inside the cascade emits a sub-progress event, for every kind of  *)
(* failure (HTTP error, network exception, invalid response format) and for  *)
(* every position in the list, the last model included.                      *)
C19_EveryFailureEmits ==
  [][(GroqCb /\ Len(failLog') = Len(failLog) + 1)
       => \E k \in (Len(progress) + 1)..Len(progress') : IsFailureEvent(progress'[k])]_vars

(* the events of one step: what the step appended to the progress log *)
Emitted == SubSeq(progress', Len(progress) + 1, Len(progress'))

(* C20: progress ordering.  For every task that runs the model chain with an *)
(* observer, the step that starts the attempt on a model first emits the     *)
(* 'trying' event of that model, and the events already delivered stay, in   *)
(* order, ahead of the events of later attempts.                             *)
C20_ProgressOrdering ==
  [][/\ Len(progress) <= Len(progress')
     /\ SubSeq(progress', 1, Len(progress)) = progress
     /\ \A j \in 1..Len(Models) :
          (hasCallback /\ calls'.groq[j] = calls.groq[j] + 1)
            => (Emitted # <<>> /\ Emitted[1] = Msg("trying", Models[j]))]_vars

(* a call that has handed a result to its caller *)
ResultReturned == pc = "done" /\ outcome.kind = "returned"

(* the provider named by a result is one whose attempt succeeded *)
NamesWinner(v) ==
  /\ "model" \in DOMAIN v
  /\ \/ v.model = "backend" /\ calls.backend = 1 /\ backendError = NoError
     \/ \E j \in 1..Len(Models) :
          /\ v.model = Models[j]
          /\ calls.groq[j] = 1
          /\ Len(failLog) = j - 1

(* C21: provenance.  Every successful result handed to the caller names the  *)
(* provider that satisfied the request, and the provider named is the one    *)
(* whose attempt succeeded, never one that failed or was not tried.          *)
C21_Provenance == ResultReturned => NamesWinner(outcome.value)

(* the model whose response was accepted: the one after the failed ones *)
Winner == Models[Len(failLog) + 1]

(* C22: the model name and the usage metadata of a successful cascade result *)
(* are those of the winning model, the one whose response was accepted, not  *)
(* of an earlier model that failed; the OCR result names the same model.     *)
C22_WinnerMetadata ==
  /\ GroqWon =>
       /\ Len(failLog) < Len(Models)
       /\ calls.groq[Len(failLog) + 1] = 1
       /\ groqResult.model = Winner
       /\ groqResult.usage \in {Winner, "undefined"}
  /\ (ResultReturned /\ GroqWon /\ entry # "extractAllData")
       => outcome.value.model = Winner

(* a later model won after an earlier one failed, and it reported its usage *)
C22_Witness ==
  /\ ResultReturned
  /\ entry = "processImageOCR"
  /\ GroqWon
  /\ Len(failLog) >= 1
  /\ groqResult.usage = Winner
  /\ outcome.value.model = Winner

(* raValues as the AI provider sent it, before any adapter touched it *)
RawRaValues == IF GroqWon THEN groqResult.content.data.raValues ELSE aiData.raValues

(* an entry that is a number, or a string that reads as one *)
IsNumeric(x) == x.rep \in {"number", "string"}

(* C23: numeric coercion at the adapter boundary.  When an AI provider       *)
(* returns an array of roughness entries, extractAllData does not throw on   *)
(* account of them, every entry of the merged raValues is a number, and it   *)
(* is the value of a numeric entry of the provider or a value the patterns   *)
(* found: text, null and empty entries are dropped.                          *)
C23_NumericCoercion ==
  (/\ entry = "extractAllData" /\ pc = "done"
   /\ "raValues" \in DOMAIN aiData
   /\ RawRaValues.t = "array"
   /\ ~MergeThrows(aiData))
    => /\ outcome.kind = "returned"
       /\ \A k \in 1..Len(outcome.value.raValues) :
            LET e == outcome.value.raValues[k]
            IN /\ e.rep = "number"
               /\ \/ Has(extractRaValues(ocrText), e)
                  \/ \E j \in 1..Len(RawRaValues.v) :
                       IsNumeric(RawRaValues.v[j]) /\ RawRaValues.v[j].n = e.n

(* no pattern of the five extractors matches a line of the text *)
NoMatch(text) ==
  \A k \in 1..Len(text) :
    \A capture \in {StandardOf, SteelOf, GostLineOf, RaOf, FitOf, HeatOf} :
      capture[text[k]] = <<>>

IsCollection(s) == DOMAIN s = 1..Len(s)

C25_FitsUpperCased ==
  ExtractReturned =>
    \A k \in 1..Len(outcome.value.fits) :
      outcome.value.fits[k] = toUpperCase(outcome.value.fits[k])

-----------------------------------------------------------------------------
(* Properties of the abortable processPdfWithOCR *)

(* C5: cancellation during an attempt.  When the caller's signal has fired   *)
(* during the call, the request is no longer in flight, the call has failed, *)
(* and the failure is not the one a timeout produces.                        *)
C5_CancelledDistinct ==
  (entry = ABORT_ENTRY /\ pc = "done" /\ cancelRequested) =>
    /\ inflight = {}
    /\ outcome.kind = "threw"
    /\ outcome # TimeoutOutcome

(* C6: timeout enforcement.  A request that is never answered has its own    *)
(* timeout armed, whether or not the caller passed a signal.                 *)
C6_TimeoutArmed ==
  (hung /\ inflight # {}) => "timeout" \in timers

(* C12: resource release.  Once the call has settled, on whichever path,     *)
(* no timer armed for it (timeout timer, progress ticker) is still armed.    *)
C12_TimersReleased ==
  (entry = ABORT_ENTRY /\ pc = "done") => timers = {}

-----------------------------------------------------------------------------
(* Properties of the click handler and of the progress panel *)

IsProgressCall ==
  /\ events # <<>>
  /\ Head(events).fn \in {"updateProgress", "addProgressSubStep"}

RECURSIVE SubStepCount(_)
SubStepCount(steps) ==
  IF steps = <<>> THEN 0 ELSE Len(Head(steps).subSteps) + SubStepCount(Tail(steps))

EntryCount(steps) == Len(steps) + SubStepCount(steps)

IsPrefix(s, t) == Len(s) <= Len(t) /\ SubSeq(t, 1, Len(s)) = s

-----------------------------------------------------------------------------
(* Properties of overlapping click handlers *)

(* C11: single writer.  A second run of the handler cannot start while an    *)
(* earlier run has not returned: at most one handler is running at any time, *)
(* so only one run writes the progress steps.                                *)
C11_OneRunAtATime ==
  \A r1 \in Runs, r2 \in Runs :
    (handler[r1].pc # "idle" /\ handler[r2].pc # "idle") => r1 = r2

-----------------------------------------------------------------------------
(* Properties of the merge as a function *)

-----------------------------------------------------------------------------
(* Properties of the steel lookup *)

SteelDone == steelPc = "done"

AiFailed == steelAi = Null \/ steelAi.t = "threw"

(* C27: the steel lookup uses the AI first and the database only as          *)
(* fallback.  A result of the AI lookup that is not null is returned         *)
(* unchanged, the database is consulted only when the AI lookup returned     *)
(* null or threw, and findSteelEquivalents never throws to its caller.       *)
C27_AiFirstNeverThrows ==
  SteelDone =>
    /\ ~AiFailed => (steelOutcome = Returned(steelAi) /\ ~dbConsulted)
    /\ dbConsulted => AiFailed
    /\ steelOutcome.kind = "returned"

(* the grade matches a key by containment: the key is part of the grade, or  *)
(* the digits of the grade are part of the key                               *)
PartialMatchWithDigits(normalized, key) ==
  \/ includes(normalized, key)
  \/ DigitsOf(normalized) # <<>> /\ includes(key, DigitsOf(normalized))

MatchesNoKey(s) ==
  /\ ~IsKey(s)
  /\ \A k \in 1..Len(Entries) :
       /\ ~NormalizedMatch(normalizeSteelGrade(s), Entries[k])
       /\ ~PartialMatchWithDigits(normalizeSteelGrade(s), Entries[k])

(* C28: when the AI lookup fails and the grade matches no key of the         *)
(* database, neither directly, nor normalized, nor by containment,           *)
(* findSteelEquivalents returns null; a grade without digits that is no key  *)
(* yields null.                                                              *)
C28_NoMatchGivesNull ==
  (SteelDone /\ AiFailed /\ steelGrade.t = "string" /\ MatchesNoKey(steelGrade.s))
    => steelOutcome = Returned(Null)

(* C29: when the click handler has finished, by success or by failure at    *)
(* any step, no progress step is left in status 'active': every step is     *)
(* 'completed' or 'error'.                                                   *)
C29_NoStepLeftActive ==
  (events = <<>> /\ \A r \in Runs : handler[r].pc = "idle")
    => \A k \in 1..Len(progressSteps) : progressSteps[k].status \in {"completed", "error"}

(* this step renders the results: it queues the 'Finalizing' calls *)
Renders ==
  /\ events = <<>>
  /\ \E j \in 1..Len(events') : events'[j] = Upd("Finalizing", "active", "Rendering results")

(* the three shared results belong to one extraction: the translation keeps  *)
(* the fields it copies, and every steel equivalent is for a material of the *)
(* extracted record                                                          *)
FromOneRun(extracted, translated, steel) ==
  /\ translated.raValues = extracted.raValues
  /\ translated.fits = extracted.fits
  /\ \A e \in steel : Has(extracted.materials, e.grade)

(* C30: result consistency.  Whenever the results are rendered, and then     *)
(* sent to Telegram, the shared extractedData, translatedData and            *)
(* steelEquivData all derive from the same pipeline run.                     *)
C30_ResultsFromOneRun ==
  [][Renders => FromOneRun(extractedData', translatedData', steelEquivData')]_vars

-----------------------------------------------------------------------------
(* Properties of the translation *)

(* the translated record against the record it was made from *)
IndexAligned(data, translated) ==
  /\ translated.raValues = data.raValues
  /\ translated.fits = data.fits
  /\ \A f \in {"materials", "standards", "heatTreatment"} :
       /\ Len(translated[f]) = Len(data[f])
       /\ \A k \in 1..Len(data[f]) : translated[f][k].text = data[f][k]

(* C32: translateExtractedData leaves raValues and fits unchanged and keeps  *)
(* materials, standards and heatTreatment index-aligned with the input: each *)
(* list has the length of its source and entry i is the translation of       *)
(* source entry i, whatever order the translations complete in and whichever *)
(* of them fail.                                                             *)
C32_TranslationIndexAligned ==
  [][\A r \in Runs :
       (handler[r].pc = "translating" /\ handler'[r].pc # "translating")
         => IndexAligned(handler[r].data, translatedData')]_vars

(* two materials were translated, one by the service and one that fell back  *)
(* to the glossary, and the record keeps both in place                       *)
C32_Witness ==
  /\ events # <<>>
  /\ Head(events) = Upd("Translation", "completed", "Translation completed")
  /\ Len(translatedData.materials) = 2
  /\ translatedData.materials[1].via = "glossary"
  /\ translatedData.materials[2].via = "api"
  /\ IndexAligned(extractedData, translatedData)

(* the request succeeded with a non-empty translatedText *)
ServiceAnswered ==
  /\ trAwaits.kind = "body"
  /\ trAwaits.result # Null
  /\ Truthy(trAwaits.result.translatedText)

(* the glossary step threw: replace was called on a value that is no string *)
GlossaryFailed == trUseGlossary /\ trText.t # "string"

(* the text after the glossary step: entry after entry, every match of the   *)
(* entry's pattern replaced                                                  *)
GlossaryText ==
  IF trUseGlossary THEN Str(GlossaryLoop(trText.s, Len(TECHNICAL_GLOSSARY))) ELSE trText

(* C31 as stated: translateToEnglish never throws and degrades in a fixed    *)
(* order: the service's text when the request succeeds with a non-empty      *)
(* translatedText, otherwise the glossary-substituted text, and the original *)
(* text only if the glossary step itself fails.                              *)
C31_OriginalOnlyIfGlossaryFails ==
  trPc = "done" =>
    /\ trOutcome.kind = "returned"
    /\ trOutcome.value =
         IF ServiceAnswered THEN trAwaits.result.translatedText
         ELSE IF GlossaryFailed THEN trText
         ELSE GlossaryText

(* C31, amended: translateToEnglish never throws; it returns the service's   *)
(* text when the request succeeds with a non-empty translatedText, the       *)
(* original text when the glossary step fails or the import of config.js is  *)
(* rejected, and the glossary-substituted text otherwise.                    *)
C31_DegradesInOrder ==
  trPc = "done" =>
    /\ trOutcome.kind = "returned"
    /\ trOutcome.value =
         IF ServiceAnswered THEN trAwaits.result.translatedText
         ELSE IF GlossaryFailed \/ trAwaits.kind = "import rejected" THEN trText
         ELSE GlossaryText

(* the import was rejected after the glossary had changed the text, and the  *)
(* caller got the original                                                   *)
C31_Witness ==
  /\ trPc = "done"
  /\ trAwaits.kind = "import rejected"
  /\ ~GlossaryFailed
  /\ GlossaryText # trText
  /\ trOutcome = Returned(trText)

-----------------------------------------------------------------------------
(* Properties of the cloud folder drawer *)

(* C33: a failed loadMoreCloudFiles (HTTP error, network failure or timeout) *)
(* leaves the pagination state unchanged, offset and loadedFiles as before   *)
(* the call, so that a retry requests the same page.                         *)
C33_FailedLoadMoreKeepsState ==
  (cloudPc = "failed" /\ cloudAppend) =>
    /\ cloudFolderPagination.offset = cloudBefore.offset
    /\ cloudFolderPagination.loadedFiles = cloudBefore.loadedFiles

====
